---- MODULE Spec2Model ----
(***************************************************************************)
(* Submission-protection subsystem of the ISTE club site (src/security.js):*)
(* the token-bucket RateLimiter with its cooldown gate, backed by           *)
(* localStorage, and the InputSanitizer pipeline.                           *)
(***************************************************************************)
EXTENDS Integers, Sequences, FiniteSets, TLC

VARIABLES
    config,            \* the RateLimiter's constructor arguments (immutable)
    storage,           \* availability of localStorage in this session
    now,               \* Date.now(), in ms
    tokens,            \* this.tokens, a JavaScript number (may be NaN)
    lastRefill,        \* this.lastRefill, ms
    storedState,       \* localStorage[this.storageKey]
    storedLastSubmit,  \* localStorage[this.lastSubmitKey]
    nextTick,          \* time at which the setInterval callback is next due
    last,              \* the latest operation and what it returned
    pre,               \* history: the state the latest operation started from
    hist,              \* history: counters of the call sequences in progress
    sanIn,             \* sanitizer: the input string (a sequence of characters)
    sanOut,            \* sanitizer: sanitize(sanIn)
    sanOut2,           \* sanitizer: sanitize(sanitize(sanIn))
    sanPc,             \* sanitizer: position of the driver
    crlConfig,         \* ClientRateLimiter: maxAttempts, windowMs, blockDurationMs
    crlNow,            \* ClientRateLimiter: Date.now(), in ms
    attempts,          \* ClientRateLimiter: this.attempts, key -> timestamps
    blocked,           \* ClientRateLimiter: this.blocked, key -> blockUntil
    signIn,            \* admin login: number of sign-in requests in flight
    crlLast,           \* ClientRateLimiter: the latest operation and its result
    crlPre,            \* history: attempts and blocked before that operation
    crlHist,           \* history: per key, the calls made since it was fresh
    pageType,          \* the page: its form and which limiter init() created
    btn,               \* the submit button: disabled, innerHTML, dataset
    regPc,             \* submit handler: the await it is suspended at
    regForm,           \* submit handler: its formData after the coordinator
    regOut,            \* what processRegistration / processLogin returned
    store,             \* the registrations collection of the data store
    regLast,           \* the latest step of the submit handler
    btnBefore,         \* history: the button as the coordinator received it
    btnReturned,       \* history: the button as the coordinator left it
    regIn,             \* history: the formData the coordinator was given
    drained,           \* history: when a login attempt last emptied the bucket
    fnOp,              \* a validator, sanitizer or debouncer call on its own
    fnIn,              \* the arguments of that call
    fnOut,             \* what the call returned or left behind
    currentUser,       \* admin page: auth.currentUser is set
    inactivityTimer,   \* admin page: the timer id held by inactivityTimer
    timeouts,          \* admin page: the setTimeout callbacks pending
    signOuts,          \* admin page: the signOut promises in flight
    sessNow,           \* admin page: Date.now(), in ms
    sessLast,          \* admin page: the latest step of the session
    lastActivity,      \* history: time of the latest sign-in or user event
    db,                \* Firestore: collection -> document id -> data
    adminOp,           \* the admin operation in flight and its locals
    limiters,          \* rateLimiters.delete and rateLimiters.bulkAction
    faulty,            \* Firestore: calls may be rejected in this session
    done,              \* history: what the latest admin operation returned
    clients            \* registration pages open at once: handler positions

limVars == <<config, storage, now, tokens, lastRefill, storedState,
             storedLastSubmit, nextTick, last, pre, hist>>
sanVars == <<sanIn, sanOut, sanOut2, sanPc>>
crlVars == <<crlConfig, crlNow, attempts, blocked, signIn, crlLast, crlPre,
             crlHist>>
regVars == <<pageType, btn, regPc, regForm, regOut, store, regLast,
             btnBefore, btnReturned, regIn, drained>>
fnVars == <<fnOp, fnIn, fnOut>>
sessVars == <<currentUser, inactivityTimer, timeouts, signOuts, sessNow,
              sessLast, lastActivity>>
dbVars == <<db, adminOp, limiters, faulty, done>>
fireVars == <<sessVars, dbVars, clients>>
vars == <<limVars, sanVars, crlVars, regVars, fnVars, fireVars>>

----------------------------------------------------------------------------
(* Bounds of the model *)

MaxAttemptsBound == 2    \* maxAttempts ranges over 1..MaxAttemptsBound
MaxPending == 1          \* sign-in requests in flight at once
CrlHorizon == 1500       \* the admin page's clock runs this far past StartTime
MaxTokensBound == 2      \* maxTokens ranges over 1..MaxTokensBound
Horizon == 2000          \* the clock runs from StartTime to StartTime + Horizon

StartTime == 10000       \* Date.now() at the first construction
Deltas == {500, 1000}    \* amounts by which the clock advances
RefillRates == {1, 2}
RefillIntervals == {1000}
Cooldowns == {0, 1500}

----------------------------------------------------------------------------
(* JavaScript numbers: an integer or NaN.  Values read from JSON may also  *)
(* be null or missing (undefined).                                          *)

Num(n) == [k |-> "num", v |-> n]
NaN == [k |-> "NaN", v |-> 0]
Null == [k |-> "null", v |-> 0]
Missing == [k |-> "undefined", v |-> 0]

IsNum(a) == a.k = "num"

\* a property that is not there
JsNoValue == [k |-> "undefined", v |-> <<>>]

\* ToNumber: null -> 0, undefined -> NaN
ToNumber(a) ==
    IF a.k = "num" THEN a
    ELSE IF a.k = "null" THEN Num(0)
    ELSE NaN

\* Math.min(a, b): NaN if either argument converts to NaN
MathMin(a, b) ==
    LET x == ToNumber(a)
        y == ToNumber(b)
    IN  IF ~IsNum(x) \/ ~IsNum(y) THEN NaN
        ELSE IF x.v <= y.v THEN x ELSE y

JsAdd(a, b) == IF IsNum(a) /\ IsNum(b) THEN Num(a.v + b.v) ELSE NaN
JsSub(a, b) == IF IsNum(a) /\ IsNum(b) THEN Num(a.v - b.v) ELSE NaN

\* comparisons with NaN are false
JsLT(a, b) == IsNum(a) /\ IsNum(b) /\ a.v < b.v
JsLE(a, b) == IsNum(a) /\ IsNum(b) /\ a.v <= b.v
JsGT(a, b) == IsNum(a) /\ IsNum(b) /\ a.v > b.v

\* a truthy number: neither 0 nor NaN (null and undefined are falsy too)
Truthy(a) == IsNum(a) /\ a.v # 0

\* JSON.stringify writes NaN as null
ToJSON(a) == IF IsNum(a) THEN a ELSE Null

\* Math.floor(a / b) for b > 0
FloorDiv(a, b) == a \div b

\* Math.ceil(a / b) for b > 0
CeilDiv(a, b) == -((-a) \div b)

----------------------------------------------------------------------------
(* localStorage entries *)

Absent == [k |-> "absent", tokens |-> Missing, lastRefill |-> Missing]
Garbage == [k |-> "unparsable", tokens |-> Missing, lastRefill |-> Missing]
Json(t, r) == [k |-> "json", tokens |-> t, lastRefill |-> r]

NoSubmit == [k |-> "absent", v |-> 0]
BadSubmit == [k |-> "garbage", v |-> 0]
SubmitAt(t) == [k |-> "str", v |-> t]

StorageModes == {"ok", "readonly", "disabled"}

CanGet(mode) == mode # "disabled"
CanSet(mode) == mode = "ok"

----------------------------------------------------------------------------
(* RateLimiter *)

maxTokens == config.maxTokens
refillRate == config.refillRate
refillInterval == config.refillInterval
cooldownMs == config.cooldownMs

Configs ==
    [maxTokens : 1..MaxTokensBound, refillRate : RefillRates,
     refillInterval : RefillIntervals, cooldownMs : Cooldowns]

\* _loadState without the Math.min clamp
loadState_NoClamp(mode, stored, t, max) ==
    IF CanGet(mode) /\ stored.k = "json"
    THEN [tokens |-> ToNumber(stored.tokens),
          lastRefill |-> IF Truthy(stored.lastRefill)
                         THEN stored.lastRefill.v ELSE t]
    ELSE [tokens |-> Num(max), lastRefill |-> t]

\* _loadState: the in-memory state read from the stored entry
loadState(mode, stored, t, max) ==
    IF CanGet(mode) /\ stored.k = "json"
    THEN [tokens |-> MathMin(stored.tokens, Num(max)),
          lastRefill |-> IF Truthy(stored.lastRefill)
                         THEN stored.lastRefill.v ELSE t]
    ELSE [tokens |-> Num(max), lastRefill |-> t]

\* _saveState that leaves the stored entry as it was
saveState_KeepOld(mode, stored, tok, lr) == stored

\* _saveState: the stored entry after writing (tok, lr)
saveState(mode, stored, tok, lr) ==
    IF CanSet(mode) THEN Json(ToJSON(tok), Num(lr)) ELSE stored

\* the catch-up crediting one token per elapsed interval whatever refillRate
tokensToAdd_IgnoreRate(lr, t, cfg) ==
    FloorDiv(t - lr, cfg.refillInterval)

\* the catch-up at the head of _startRefillTimer
tokensToAdd(lr, t, cfg) ==
    FloorDiv(t - lr, cfg.refillInterval) * cfg.refillRate

startRefillTimer(mode, stored, mem, t, cfg) ==
    LET add == tokensToAdd(mem.lastRefill, t, cfg)
        tok == MathMin(JsAdd(mem.tokens, Num(add)), Num(cfg.maxTokens))
    IN  IF add > 0
        THEN [tokens |-> tok, lastRefill |-> t,
              stored |-> saveState(mode, stored, tok, t)]
        ELSE [tokens |-> mem.tokens, lastRefill |-> mem.lastRefill,
              stored |-> stored]

\* constructor: _loadState, then _startRefillTimer
construct(mode, stored, t, cfg) ==
    startRefillTimer(mode, stored,
                     loadState(mode, stored, t, cfg.maxTokens), t, cfg)

\* checkCooldown
checkCooldown(mode, ls, t, cd) ==
    IF cd = 0 THEN [allowed |-> TRUE, remainingMs |-> 0]
    ELSE IF ~CanGet(mode) THEN [allowed |-> TRUE, remainingMs |-> 0]
    ELSE IF ls.k = "garbage" THEN [allowed |-> TRUE, remainingMs |-> 0]
    ELSE LET lastSubmit == IF ls.k = "str" THEN ls.v ELSE 0
             remaining == cd - (t - lastSubmit)
         IN  IF remaining > 0
             THEN [allowed |-> FALSE, remainingMs |-> remaining]
             ELSE [allowed |-> TRUE, remainingMs |-> 0]

\* recordSubmission that writes nothing
recordSubmission_Skip(mode, ls, t) == ls

\* recordSubmission
recordSubmission(mode, ls, t) ==
    IF CanSet(mode) THEN SubmitAt(t) ELSE ls

\* what an operation returned; threw is set when an exception left it instead
Result(op, allowed, err, tok, secs) ==
    [op |-> op, allowed |-> allowed, errorType |-> err,
     tokens |-> tok, seconds |-> secs, threw |-> FALSE]

\* localStorage.getItem / setItem raise when the storage is not available
getItemThrows(mode) == ~CanGet(mode)
setItemThrows(mode) == ~CanSet(mode)

\* a try block whose catch clause lets the exception through
Guarded_Rethrow(thrown) == thrown

\* try { ... } catch (e) { console.warn(...) }: whatever the block raises
\* is swallowed by the catch clause
Guarded(thrown) == FALSE

\* exceptions that leave each operation of the RateLimiter
loadStateThrows(mode) == Guarded(getItemThrows(mode))
saveStateThrows(mode) == Guarded(setItemThrows(mode))
checkCooldownThrows(mode, cd) == cd # 0 /\ Guarded(getItemThrows(mode))
recordSubmissionThrows(mode) == Guarded(setItemThrows(mode))
constructThrows(mode, stored, t, cfg) ==
    \/ loadStateThrows(mode)
    \/ /\ tokensToAdd(loadState(mode, stored, t, cfg.maxTokens).lastRefill,
                       t, cfg) > 0
       /\ saveStateThrows(mode)
tryConsumeThrows(mode, tok, ls, t, cfg) ==
    \/ checkCooldownThrows(mode, cfg.cooldownMs)
    \/ /\ checkCooldown(mode, ls, t, cfg.cooldownMs).allowed
       /\ ~JsLE(tok, Num(0))
       /\ saveStateThrows(mode) \/ recordSubmissionThrows(mode)
refillTickThrows(mode, tok, cfg) ==
    JsLT(tok, Num(cfg.maxTokens)) /\ saveStateThrows(mode)
getStatusThrows(mode, cfg) == checkCooldownThrows(mode, cfg.cooldownMs)

\* getStatus: the object handed to the UI (percentage is
\* tokens / maxTokens * 100, kept as the pair of its terms)
getStatus(mode, tok, ls, t, cfg) ==
    LET cooldown == checkCooldown(mode, ls, t, cfg.cooldownMs)
    IN  [tokens |-> tok, maxTokens |-> cfg.maxTokens,
         percentage |-> [num |-> tok, den |-> cfg.maxTokens],
         cooldownActive |-> ~cooldown.allowed,
         cooldownRemaining |-> CeilDiv(cooldown.remainingMs, 1000)]

Snapshot ==
    [tokens |-> tokens, lastRefill |-> lastRefill,
     storedState |-> storedState, storedLastSubmit |-> storedLastSubmit]

NoHist == [live |-> FALSE, at |-> 0, inSeq |-> FALSE,
           fullRun |-> -1, fullBefore |-> -1,
           tickRun |-> -1, tickBefore |-> -1,
           okAt |-> -1, okBefore |-> -1, fullStart |-> FALSE]

\* tryConsume with the token gate checked before the cooldown gate
tryConsumeOutcome_TokensFirst(mode, tok, lr, stored, ls, t, cfg) ==
    LET cooldown == checkCooldown(mode, ls, t, cfg.cooldownMs)
    IN  IF JsLE(tok, Num(0))
        THEN [result |-> Result("tryConsume", FALSE, "RATE_LIMITED",
                                Num(0), 0),
              tokens |-> tok, stored |-> stored, ls |-> ls]
        ELSE IF ~cooldown.allowed
        THEN [result |-> Result("tryConsume", FALSE, "COOLDOWN", tok,
                                CeilDiv(cooldown.remainingMs, 1000)),
              tokens |-> tok, stored |-> stored, ls |-> ls]
        ELSE LET t2 == JsSub(tok, Num(1))
             IN  [result |-> Result("tryConsume", TRUE, "none", t2, 0),
                  tokens |-> t2,
                  stored |-> saveState(mode, stored, t2, lr),
                  ls |-> recordSubmission(mode, ls, t)]

\* tryConsume whose token gate is tokens < 0
tryConsumeOutcome_StrictGate(mode, tok, lr, stored, ls, t, cfg) ==
    LET cooldown == checkCooldown(mode, ls, t, cfg.cooldownMs)
    IN  IF ~cooldown.allowed
        THEN [result |-> Result("tryConsume", FALSE, "COOLDOWN", tok,
                                CeilDiv(cooldown.remainingMs, 1000)),
              tokens |-> tok, stored |-> stored, ls |-> ls]
        ELSE IF JsLT(tok, Num(0))
        THEN [result |-> Result("tryConsume", FALSE, "RATE_LIMITED",
                                Num(0), 0),
              tokens |-> tok, stored |-> stored, ls |-> ls]
        ELSE LET t2 == JsSub(tok, Num(1))
             IN  [result |-> Result("tryConsume", TRUE, "none", t2, 0),
                  tokens |-> t2,
                  stored |-> saveState(mode, stored, t2, lr),
                  ls |-> recordSubmission(mode, ls, t)]

\* tryConsume that restarts the cooldown on a rejected call too
tryConsumeOutcome_RejectRecords(mode, tok, lr, stored, ls, t, cfg) ==
    LET cooldown == checkCooldown(mode, ls, t, cfg.cooldownMs)
    IN  IF ~cooldown.allowed
        THEN [result |-> Result("tryConsume", FALSE, "COOLDOWN", tok,
                                CeilDiv(cooldown.remainingMs, 1000)),
              tokens |-> tok, stored |-> stored,
              ls |-> recordSubmission(mode, ls, t)]
        ELSE IF JsLE(tok, Num(0))
        THEN [result |-> Result("tryConsume", FALSE, "RATE_LIMITED",
                                Num(0), 0),
              tokens |-> tok, stored |-> stored,
              ls |-> recordSubmission(mode, ls, t)]
        ELSE LET t2 == JsSub(tok, Num(1))
             IN  [result |-> Result("tryConsume", TRUE, "none", t2, 0),
                  tokens |-> t2,
                  stored |-> saveState(mode, stored, t2, lr),
                  ls |-> recordSubmission(mode, ls, t)]

\* what tryConsume returns and leaves behind
tryConsumeOutcome(mode, tok, lr, stored, ls, t, cfg) ==
    LET cooldown == checkCooldown(mode, ls, t, cfg.cooldownMs)
    IN  IF ~cooldown.allowed
        THEN [result |-> Result("tryConsume", FALSE, "COOLDOWN", tok,
                                CeilDiv(cooldown.remainingMs, 1000)),
              tokens |-> tok, stored |-> stored, ls |-> ls]
        ELSE IF JsLE(tok, Num(0))
        THEN [result |-> Result("tryConsume", FALSE, "RATE_LIMITED",
                                Num(0), 0),
              tokens |-> tok, stored |-> stored, ls |-> ls]
        ELSE LET t2 == JsSub(tok, Num(1))
             IN  [result |-> Result("tryConsume", TRUE, "none", t2, 0),
                  tokens |-> t2,
                  stored |-> saveState(mode, stored, t2, lr),
                  ls |-> recordSubmission(mode, ls, t)]

\* the setInterval callback adding one token whatever refillRate
refillTick_AddOne(mode, tok, lr, stored, t, cfg) ==
    IF JsLT(tok, Num(cfg.maxTokens))
    THEN LET t2 == MathMin(JsAdd(tok, Num(1)), Num(cfg.maxTokens))
         IN  [tokens |-> t2, lastRefill |-> t,
              stored |-> saveState(mode, stored, t2, t)]
    ELSE [tokens |-> tok, lastRefill |-> lr, stored |-> stored]

\* the body of the setInterval callback
refillTick(mode, tok, lr, stored, t, cfg) ==
    IF JsLT(tok, Num(cfg.maxTokens))
    THEN LET t2 == MathMin(JsAdd(tok, Num(cfg.refillRate)),
                           Num(cfg.maxTokens))
         IN  [tokens |-> t2, lastRefill |-> t,
              stored |-> saveState(mode, stored, t2, t)]
    ELSE [tokens |-> tok, lastRefill |-> lr, stored |-> stored]

----------------------------------------------------------------------------
(* What localStorage may hold when the page is first loaded *)

StoredTokenVals ==
    {Missing, Null} \cup {Num(n) : n \in -1..(MaxTokensBound + 1)}
StoredRefillVals ==
    {Missing} \cup {Num(StartTime - d) : d \in {0, 1000, 2500}}
StoredStates ==
    {Absent, Garbage} \cup
    {Json(t, r) : t \in StoredTokenVals, r \in StoredRefillVals}
StoredSubmits == {NoSubmit, BadSubmit, SubmitAt(StartTime - 1000)}

SanIdle ==
    /\ sanIn = <<>>
    /\ sanOut = <<>>
    /\ sanOut2 = <<>>
    /\ sanPc = "off"

\* the keys one ClientRateLimiter is asked about
Keys == {"login", "bulk"}

\* what recordAttempt / reset returned
CrlResult(op, key, allowed, retryAfter, remaining) ==
    [op |-> op, key |-> key, allowed |-> allowed, retryAfter |-> retryAfter,
     remaining |-> remaining]

\* new ClientRateLimiter(options): both maps empty
NoAttempts == [k \in Keys |-> <<>>]
NoBlocks == [k \in Keys |-> 0]
NoCalls == [k \in Keys |-> [n |-> 0, first |-> 0, wasReset |-> FALSE]]

CrlIdle ==
    /\ crlConfig = [maxAttempts |-> 1, windowMs |-> 2000,
                    blockDurationMs |-> 1500]
    /\ crlNow = StartTime
    /\ attempts = NoAttempts
    /\ blocked = NoBlocks
    /\ signIn = 0
    /\ crlLast = CrlResult("none", "login", TRUE, 0, 0)
    /\ crlPre = [attempts |-> NoAttempts, blocked |-> NoBlocks,
                 calls |-> NoCalls["login"]]
    /\ crlHist = NoCalls

\* the submit button as the page's markup has it, and its label while the
\* reCAPTCHA token is awaited
RegisterLabel == "<span class=btn-text>Register Team</span>"
VerifyingLabel == "<span class=btn-text>Verifying...</span>"
Unset == "undefined"
FreshButton ==
    [disabled |-> FALSE, innerHTML |-> RegisterLabel, originalHTML |-> Unset]

NoFields == [f \in {} |-> JsNoValue]
NoOutcome ==
    [type |-> "NONE", success |-> FALSE, validated |-> FALSE,
     errors |-> NoFields, data |-> NoFields, unexpected |-> {}]

NoDrain == [at |-> -1, before |-> -1]

RegIdle ==
    /\ pageType = "registration"
    /\ btn = FreshButton
    /\ regPc = "idle"
    /\ regForm = NoFields
    /\ regOut = NoOutcome
    /\ store = {}
    /\ regLast = "none"
    /\ btnBefore = FreshButton
    /\ btnReturned = FreshButton
    /\ regIn = NoFields
    /\ drained = NoDrain

\* no validator, sanitizer or debouncer call is being looked at on its own
FnIdle ==
    /\ fnOp = "none"
    /\ fnIn = <<>>
    /\ fnOut = <<>>

\* the admin page is not open: no user, no timer, nothing in flight
SessIdle ==
    /\ currentUser = FALSE
    /\ inactivityTimer = 0
    /\ timeouts = {}
    /\ signOuts = {}
    /\ sessNow = StartTime
    /\ sessLast = "none"
    /\ lastActivity = 0

\* no admin operation, an empty database, fresh limiters
NoOp == [name |-> "none"]
DbIdle ==
    /\ db = <<>>
    /\ adminOp = NoOp
    /\ limiters = <<>>
    /\ faulty = FALSE
    /\ done = NoOp

FireIdle == SessIdle /\ DbIdle /\ clients = <<>>

\* new RateLimiter(config) on a page loaded at StartTime
Init ==
    /\ config \in Configs
    /\ storage \in StorageModes
    /\ now = StartTime
    /\ storedLastSubmit \in
         IF storage = "disabled" THEN {NoSubmit} ELSE StoredSubmits
    /\ \E s0 \in IF storage = "disabled" THEN {Absent} ELSE StoredStates :
         LET c == construct(storage, s0, now, config)
         IN  /\ tokens = c.tokens
             /\ lastRefill = c.lastRefill
             /\ storedState = c.stored
             /\ pre = [tokens |-> NaN, lastRefill |-> 0, storedState |-> s0,
                       storedLastSubmit |-> storedLastSubmit]
             /\ last = [Result("construct", TRUE, "none", c.tokens, 0)
                          EXCEPT !.threw =
                              constructThrows(storage, s0, now, config)]
    /\ nextTick = now + refillInterval
    /\ hist = [NoHist EXCEPT !.fullStart = tokens = Num(maxTokens)]
    /\ SanIdle
    /\ CrlIdle
    /\ RegIdle
    /\ FnIdle
    /\ FireIdle

Cap(n) == IF n > MaxTokensBound + 3 THEN MaxTokensBound + 3 ELSE n

\* rateLimiter.tryConsume(): what it does to the limiter
TryConsumeEffect ==
    LET out == tryConsumeOutcome(storage, tokens, lastRefill, storedState,
                                 storedLastSubmit, now, config)
        ok == out.result.allowed
        inSeq == hist.live /\ cooldownMs > 0 /\ now - hist.at < cooldownMs
    IN  /\ tokens' = out.tokens
        /\ storedState' = out.stored
        /\ storedLastSubmit' = out.ls
        /\ last' = [out.result EXCEPT !.threw =
                        tryConsumeThrows(storage, tokens, storedLastSubmit,
                                         now, config)]
        /\ pre' = Snapshot
        /\ hist' = [live |-> ok \/ inSeq, at |-> now, inSeq |-> inSeq,
                    okAt |-> IF ok THEN now ELSE hist.okAt,
                    okBefore |-> hist.okAt,
                    fullStart |-> hist.fullStart,
                    fullBefore |-> hist.fullRun,
                    tickBefore |-> hist.tickRun,
                    fullRun |-> IF ~ok THEN hist.fullRun
                                ELSE IF tokens = Num(maxTokens) THEN 1
                                ELSE IF hist.fullRun >= 1
                                     THEN Cap(hist.fullRun + 1)
                                ELSE -1,
                    tickRun |-> IF ok /\ hist.tickRun >= 0
                                THEN Cap(hist.tickRun + 1)
                                ELSE hist.tickRun]
        /\ UNCHANGED <<config, storage, now, lastRefill, nextTick>>

\* rateLimiter.tryConsume() called on its own
TryConsume == TryConsumeEffect /\ UNCHANGED <<sanVars, crlVars, regVars, fnVars, fireVars>>

\* the setInterval callback of _startRefillTimer fires
RefillTick ==
    /\ now >= nextTick
    /\ LET r == refillTick(storage, tokens, lastRefill, storedState, now,
                           config)
       IN  /\ tokens' = r.tokens
           /\ lastRefill' = r.lastRefill
           /\ storedState' = r.stored
           /\ last' = [Result("refill", TRUE, "none", r.tokens, 0)
                        EXCEPT !.threw =
                            refillTickThrows(storage, tokens, config)]
    /\ nextTick' \in {now + refillInterval} \cup
                     {n \in {nextTick + refillInterval} : n > now}
    /\ pre' = Snapshot
    /\ hist' = [hist EXCEPT !.inSeq = FALSE, !.fullRun = -1,
                   !.fullBefore = -1, !.tickBefore = -1, !.okBefore = -1,
                   !.tickRun = IF tokens = Num(0) /\ refillRate <= maxTokens
                               THEN 0 ELSE -1]
    /\ UNCHANGED <<config, storage, now, storedLastSubmit, sanVars, crlVars, regVars, fnVars, fireVars>>

\* wall-clock time passes; a suspended or throttled page lets it pass
\* without the timer firing
AdvanceBy(d) ==
        /\ now + d <= StartTime + Horizon
        /\ now' = now + d
        /\ last' = Result("advance", TRUE, "none", tokens, 0)
        /\ pre' = Snapshot
        /\ hist' = [hist EXCEPT !.inSeq = FALSE, !.fullRun = -1,
                       !.fullBefore = -1, !.tickBefore = -1,
                       !.okBefore = -1]
        /\ UNCHANGED <<config, storage, tokens, lastRefill, storedState,
                       storedLastSubmit, nextTick>>

Advance ==
    \E d \in Deltas : AdvanceBy(d) /\ UNCHANGED <<sanVars, crlVars, regVars, fnVars, fireVars>>

\* a new RateLimiter is constructed from localStorage
ReloadEffect ==
    LET c == construct(storage, storedState, now, config)
    IN  /\ tokens' = c.tokens
        /\ lastRefill' = c.lastRefill
        /\ storedState' = c.stored
        /\ nextTick' = now + refillInterval
        /\ last' = [Result("construct", TRUE, "none", c.tokens, 0)
                    EXCEPT !.threw =
                        constructThrows(storage, storedState, now, config)]
        /\ pre' = [Snapshot EXCEPT !.tokens = NaN, !.lastRefill = 0]
        /\ hist' = [NoHist EXCEPT !.fullStart = c.tokens = Num(maxTokens)]
        /\ UNCHANGED <<config, storage, now, storedLastSubmit>>

\* the page is reloaded
Reload == ReloadEffect /\ UNCHANGED <<sanVars, crlVars, regVars, fnVars, fireVars>>

\* rateLimiter.getStatus(): reads the bucket and the cooldown
GetStatus ==
    LET st == getStatus(storage, tokens, storedLastSubmit, now, config)
    IN  /\ last' = [op |-> "getStatus", allowed |-> ~st.cooldownActive,
                    errorType |-> "none", tokens |-> st.tokens,
                    seconds |-> st.cooldownRemaining,
                    threw |-> getStatusThrows(storage, config)]
        /\ pre' = Snapshot
        /\ hist' = [hist EXCEPT !.inSeq = FALSE, !.fullBefore = -1,
                       !.tickBefore = -1, !.okBefore = -1]
        /\ UNCHANGED <<config, storage, now, tokens, lastRefill, storedState,
                       storedLastSubmit, nextTick, sanVars, crlVars, regVars, fnVars, fireVars>>

Next == TryConsume \/ RefillTick \/ Advance \/ Reload \/ GetStatus

Spec == Init /\ [][Next]_vars

----------------------------------------------------------------------------
(* Properties of the RateLimiter *)

\* the cooldown gate as the specification states it: a submission time is
\* recorded and less than cooldownMs have passed since
InCooldown(ls, t) == cooldownMs > 0 /\ ls.k = "str" /\ t - ls.v < cooldownMs

Called == last.op = "tryConsume"
Constructed == last.op = "construct"

C2_AllButFirstCooldown ==
    (Called /\ hist.inSeq) => (~last.allowed /\ last.errorType = "COOLDOWN")

\* C3: tryConsume checks the cooldown gate first: a call made while the
\* recorded last submission is less than cooldownMs old is rejected with
\* COOLDOWN whatever the token count, and reports ceil(remainingMs / 1000).
C3_CooldownGateFirst ==
    (Called /\ InCooldown(pre.storedLastSubmit, now)) =>
        LET remainingMs == cooldownMs - (now - pre.storedLastSubmit.v)
        IN  /\ ~last.allowed
            /\ last.errorType = "COOLDOWN"
            /\ 1000 * last.seconds >= remainingMs
            /\ 1000 * (last.seconds - 1) < remainingMs

\* C3 witness: an empty bucket in cooldown is answered COOLDOWN, the wait
\* rounded up from 1500 ms to 2 s
C3_Witness ==
    /\ Called
    /\ InCooldown(pre.storedLastSubmit, now)
    /\ pre.tokens = Num(0)
    /\ last.errorType = "COOLDOWN"
    /\ cooldownMs - (now - pre.storedLastSubmit.v) = 1500
    /\ last.seconds = 2

\* C4: after maxTokens consecutive successful consumes that started from a
\* full bucket, with no time elapsed and no refill, the next tryConsume not
\* held by the cooldown is rejected with RATE_LIMITED.
C4_ExhaustedAfterMax ==
    (Called /\ hist.fullBefore = maxTokens
            /\ ~InCooldown(pre.storedLastSubmit, now)) =>
        (~last.allowed /\ last.errorType = "RATE_LIMITED")

\* C4 witness: two tokens were consumed back to back and the third call was
\* rejected for lack of tokens
C4_Witness ==
    /\ Called
    /\ maxTokens = 2
    /\ hist.fullBefore = maxTokens
    /\ ~InCooldown(pre.storedLastSubmit, now)
    /\ last.errorType = "RATE_LIMITED"

\* C5: once the refill timer has fired on an empty bucket (refillRate <=
\* maxTokens), exactly refillRate further calls not held by the cooldown
\* succeed, and the call after them is rejected with RATE_LIMITED.
C5_RefillAdmitsRate ==
    (Called /\ hist.tickBefore >= 0
            /\ ~InCooldown(pre.storedLastSubmit, now)) =>
        /\ hist.tickBefore < refillRate => last.allowed
        /\ hist.tickBefore >= refillRate =>
               (~last.allowed /\ last.errorType = "RATE_LIMITED")

\* C5 witness: with refillRate = 2, two calls succeeded after the refill and
\* the third was rejected
C5_Witness ==
    /\ Called
    /\ refillRate = 2
    /\ hist.tickBefore = 2
    /\ ~InCooldown(pre.storedLastSubmit, now)
    /\ last.errorType = "RATE_LIMITED"

C8_TokensNonNegative == IsNum(tokens) => tokens.v >= 0

\* C9: a limiter constructed from an absent, unparsable or inconsistent
\* (token count missing or not a number) stored entry starts with a full
\* bucket.
C9_InconsistentLoadsFull ==
    (Constructed /\ CanGet(storage)
        /\ (pre.storedState.k # "json" \/ ~IsNum(pre.storedState.tokens))) =>
        tokens = Num(maxTokens)

\* C10: construction credits floor(elapsedMs / refillInterval) * refillRate
\* tokens on top of the loaded count, clamped to maxTokens, elapsedMs being
\* the age of the persisted lastRefill; a credit of 0 leaves the loaded
\* count unchanged.
C10_CatchUpAtConstruction ==
    (Constructed /\ CanGet(storage) /\ pre.storedState.k = "json"
        /\ Truthy(pre.storedState.lastRefill)) =>
        LET elapsedMs == now - pre.storedState.lastRefill.v
            loaded == MathMin(pre.storedState.tokens, Num(maxTokens))
        IN  \E n \in 0..(StartTime + Horizon) :
                /\ n * refillInterval <= elapsedMs
                /\ elapsedMs < (n + 1) * refillInterval
                /\ IF n * refillRate = 0 THEN tokens = loaded
                   ELSE IF ~IsNum(loaded) THEN tokens = NaN
                   ELSE IF loaded.v + n * refillRate > maxTokens
                        THEN tokens = Num(maxTokens)
                   ELSE tokens = Num(loaded.v + n * refillRate)

\* C10 witness: two intervals and a half elapsed, rate 2: four tokens are
\* credited to a stored count of -1 and clamped to maxTokens
C10_Witness ==
    /\ Constructed
    /\ pre.storedState.k = "json"
    /\ pre.storedState.tokens = Num(-1)
    /\ Truthy(pre.storedState.lastRefill)
    /\ now - pre.storedState.lastRefill.v = 2500
    /\ refillRate = 2
    /\ tokens = Num(maxTokens)

\* C11: when the refill timer has not fired although at least one refill
\* interval has elapsed (the clock was suspended), the next tryConsume
\* catches up the missed refills: an empty bucket admits a request that the
\* cooldown does not hold.
C11_CatchUpOnAccess ==
    (Called /\ pre.tokens = Num(0) /\ now >= nextTick
            /\ ~InCooldown(pre.storedLastSubmit, now)) =>
        last.allowed

\* C12: no operation of the RateLimiter (construction, tryConsume with its
\* checkCooldown and recordSubmission, getStatus, refill tick) throws when
\* localStorage reads or writes fail; each returns its normal result, and a
\* limiter constructed while the storage cannot be read has a full bucket.
C12_NeverThrows ==
    /\ ~last.threw
    /\ (Constructed /\ ~CanGet(storage)) => tokens = Num(maxTokens)
    /\ Called =>
           /\ last.errorType \in {"none", "COOLDOWN", "RATE_LIMITED"}
           /\ last.allowed <=> last.errorType = "none"
           /\ last.seconds >= 0
    /\ last.op = "getStatus" =>
           /\ last.tokens = tokens
           /\ last.seconds >= 0
           /\ last.allowed <=> last.seconds = 0

\* C12 witness: with localStorage refusing every access, a tryConsume was
\* allowed although neither of its two writes could be made
C12_Witness ==
    /\ Called
    /\ storage = "disabled"
    /\ setItemThrows(storage)
    /\ last.allowed
    /\ ~last.threw
    /\ storedState = Absent

\* C13: with localStorage unavailable for the whole session the limiter
\* enforces both gates from memory: a successful tryConsume takes one token
\* from the in-memory count, and a tryConsume less than cooldownMs after a
\* successful one is rejected with COOLDOWN.
C13_InMemoryGates ==
    (Called /\ storage = "disabled") =>
        /\ last.allowed => tokens = JsSub(pre.tokens, Num(1))
        /\ (cooldownMs > 0 /\ hist.okBefore >= 0
                /\ now - hist.okBefore < cooldownMs) =>
               (~last.allowed /\ last.errorType = "COOLDOWN")

\* the mutations of a limiter instance that C14 names
Consumed == Called /\ last.allowed
Ticked == last.op = "refill"
Credited ==
    /\ Constructed
    /\ tokensToAdd(loadState(storage, pre.storedState, now,
                             maxTokens).lastRefill, now, config) > 0

\* C14 as stated: with working storage, after a construction, a successful
\* tryConsume or a refill tick the persisted token count is the in-memory
\* token count.
C14_PersistedEqualsMemory ==
    (storage = "ok" /\ (Constructed \/ Consumed \/ Ticked)) =>
        /\ storedState.k = "json"
        /\ storedState.tokens = ToJSON(tokens)

\* C14 amended: with working storage, after a successful tryConsume, a
\* refill tick that adds tokens or a construction that credits catch-up
\* tokens, the persisted entry is the in-memory state written out; a
\* construction that credits nothing and a tick on a full bucket write
\* nothing, and the entry a construction leaves loads to the in-memory
\* count.
C14_WriteBack ==
    storage = "ok" =>
        /\ (Consumed \/ Credited
               \/ (Ticked /\ JsLT(pre.tokens, Num(maxTokens)))) =>
               storedState = Json(ToJSON(tokens), Num(lastRefill))
        /\ (Constructed /\ ~Credited) =>
               /\ storedState = pre.storedState
               /\ loadState(storage, storedState, now, maxTokens).tokens
                      = tokens
        /\ (Ticked /\ ~JsLT(pre.tokens, Num(maxTokens))) =>
               (storedState = pre.storedState /\ tokens = pre.tokens)

\* C14 witness: a refill tick following a consume wrote the refilled count
\* over the one the consume had persisted
C14_Witness ==
    /\ storage = "ok"
    /\ Ticked
    /\ hist.okAt >= 0
    /\ pre.storedState = Json(Num(0), Num(pre.lastRefill))
    /\ pre.tokens = Num(0)
    /\ tokens = Num(1)
    /\ storedState = Json(Num(1), Num(now))

\* C35: a rejected tryConsume (COOLDOWN or RATE_LIMITED) changes nothing:
\* the in-memory tokens and lastRefill, the persisted state and the recorded
\* last-submission time are the same after the call as before it.
C35_RejectionChangesNothing ==
    (Called /\ ~last.allowed) =>
        /\ last.errorType \in {"COOLDOWN", "RATE_LIMITED"}
        /\ tokens = pre.tokens
        /\ lastRefill = pre.lastRefill
        /\ storedState = pre.storedState
        /\ storedLastSubmit = pre.storedLastSubmit

\* C35 witness: a call on an empty bucket whose cooldown had run out was
\* rejected with RATE_LIMITED and left the stored entries as they were
C35_Witness ==
    /\ Called
    /\ storage = "ok"
    /\ last.errorType = "RATE_LIMITED"
    /\ cooldownMs > 0
    /\ pre.tokens = Num(0)
    /\ tokens = Num(0)
    /\ pre.storedLastSubmit.k = "str"
    /\ storedLastSubmit = pre.storedLastSubmit
    /\ pre.storedState.k = "json"
    /\ storedState = pre.storedState

\* C36: a limiter instance with working storage, refillRate >= 1 and
\* cooldownMs >= refillInterval that started with a full bucket and has not
\* been reloaded never has 0 tokens and never answers RATE_LIMITED: every
\* rejection is a COOLDOWN.  (Stated for maxTokens >= 2, the registration
\* limiter having 5: a bucket of one is empty after its first consume.)
C36_NeverExhausted ==
    (hist.fullStart /\ storage = "ok" /\ refillRate >= 1
        /\ cooldownMs >= refillInterval /\ maxTokens >= 2) =>
        /\ tokens # Num(0)
        /\ Called => last.errorType # "RATE_LIMITED"

\* the latest operation wrote the bucket to localStorage, at the present time
Wrote ==
    \/ Consumed
    \/ Ticked /\ JsLT(pre.tokens, Num(maxTokens))
    \/ Credited

\* C33: a limiter constructed from its persisted state with no time elapsed
\* since the last persisted write has the persisted token count: with
\* working storage, a page reload that directly follows a consume, a refill
\* tick or a crediting construction leaves tokens equal to the stored count.
C33_ReloadKeepsTokens ==
    [][(storage = "ok" /\ Wrote /\ Constructed' /\ now' = now) =>
           tokens' = ToNumber(storedState.tokens)]_vars

----------------------------------------------------------------------------
(* InputSanitizer.  A string is a sequence of characters; a character is a  *)
(* one-letter string, except NUL (U+0000), BACKTICK (U+0060) and FWLT       *)
(* (U+FF1C, the fullwidth less-than sign), which are spelled by name.       *)

MaxFrags == 2            \* an input is made of at most MaxFrags fragments

NUL == "NUL"
BACKTICK == "BACKTICK"
FWLT == "FWLT"

UpperCase == <<"A", "B", "C", "D", "E", "F", "G", "H", "I", "J", "K", "L", "M",
               "N", "O", "P", "Q", "R", "S", "T", "U", "V", "W", "X", "Y", "Z">>
LowerCase == <<"a", "b", "c", "d", "e", "f", "g", "h", "i", "j", "k", "l", "m",
               "n", "o", "p", "q", "r", "s", "t", "u", "v", "w", "x", "y", "z">>
Digits == {"0", "1", "2", "3", "4", "5", "6", "7", "8", "9"}

\* the i flag of a regular expression: compare letters in lower case
Lower(c) ==
    IF \E i \in 1..26 : UpperCase[i] = c
    THEN LowerCase[CHOOSE i \in 1..26 : UpperCase[i] = c]
    ELSE c

\* \w and \s
IsWord(c) ==
    \/ \E i \in 1..26 : c = UpperCase[i] \/ c = LowerCase[i]
    \/ c \in Digits
    \/ c = "_"
IsSpace(c) == c \in {" ", "\t", "\n"}
IsQuote(c) == c \in {"\"", "'"}

\* does the lower-case literal pat occur in s at position i (ignoring case)?
MatchesAt(s, i, pat) ==
    /\ i + Len(pat) - 1 <= Len(s)
    /\ \A k \in 1..Len(pat) : Lower(s[i + k - 1]) = pat[k]

\* the length of the longest run of characters satisfying a class, from i
RECURSIVE SpaceRun(_, _)
SpaceRun(s, i) ==
    IF i <= Len(s) /\ IsSpace(s[i]) THEN 1 + SpaceRun(s, i + 1) ELSE 0
RECURSIVE WordRun(_, _)
WordRun(s, i) ==
    IF i <= Len(s) /\ IsWord(s[i]) THEN 1 + WordRun(s, i + 1) ELSE 0
RECURSIVE NonQuoteRun(_, _)
NonQuoteRun(s, i) ==
    IF i <= Len(s) /\ ~IsQuote(s[i]) THEN 1 + NonQuoteRun(s, i + 1) ELSE 0

RECURSIVE Flatten(_)
Flatten(ss) == IF ss = <<>> THEN <<>> ELSE Head(ss) \o Flatten(Tail(ss))

\* escapeHTML: the entity of each reserved character
htmlEntities(c) ==
    CASE c = "&" -> <<"&", "a", "m", "p", ";">>
      [] c = "<" -> <<"&", "l", "t", ";">>
      [] c = ">" -> <<"&", "g", "t", ";">>
      [] c = "\"" -> <<"&", "q", "u", "o", "t", ";">>
      [] c = "'" -> <<"&", "#", "x", "2", "7", ";">>
      [] c = "/" -> <<"&", "#", "x", "2", "F", ";">>
      [] c = BACKTICK -> <<"&", "#", "x", "6", "0", ";">>
      [] c = "=" -> <<"&", "#", "x", "3", "D", ";">>
      [] OTHER -> <<c>>

escapeHTML(s) == Flatten([i \in 1..Len(s) |-> htmlEntities(s[i])])

\* /<script\b[^<]*(?:(?!<\/script>)<[^<]*)*<\/script>/gi : an opening
\* "<script" at a word boundary, up to and including the first "</script>"
OpenTag == <<"<", "s", "c", "r", "i", "p", "t">>
CloseTag == <<"<", "/", "s", "c", "r", "i", "p", "t", ">">>

ScriptMatchLen(s, i) ==
    IF /\ MatchesAt(s, i, OpenTag)
       /\ i + 7 <= Len(s)
       /\ ~IsWord(s[i + 7])
       /\ \E j \in (i + 7)..Len(s) : MatchesAt(s, j, CloseTag)
    THEN LET j == CHOOSE j \in (i + 7)..Len(s) :
                    /\ MatchesAt(s, j, CloseTag)
                    /\ \A h \in (i + 7)..(j - 1) : ~MatchesAt(s, h, CloseTag)
         IN  j + 9 - i
    ELSE 0

\* the event-handler pattern: \s* on \w+ \s* = \s* quote non-quotes quote
HandlerMatchLen(s, i) ==
    LET a == i + SpaceRun(s, i)              \* at "on"
        b == a + 2                           \* at \w+
        c == b + WordRun(s, b)               \* after \w+
        d == c + SpaceRun(s, c)              \* at "="
        e == d + 1 + SpaceRun(s, d + 1)      \* at the opening quote
        f == e + 1 + NonQuoteRun(s, e + 1)   \* at the closing quote
    IN  IF /\ MatchesAt(s, a, <<"o", "n">>)
           /\ c > b
           /\ d <= Len(s) /\ s[d] = "="
           /\ e <= Len(s) /\ IsQuote(s[e])
           /\ f <= Len(s) /\ IsQuote(s[f])
        THEN f + 1 - i
        ELSE 0

\* /javascript:/gi
JsScheme == <<"j", "a", "v", "a", "s", "c", "r", "i", "p", "t", ":">>
SchemeMatchLen(s, i) == IF MatchesAt(s, i, JsScheme) THEN Len(JsScheme) ELSE 0

\* String.prototype.replace(re, '') with the g flag: one pass, left to right
RECURSIVE StripScriptTags(_, _)
StripScriptTags(s, i) ==
    IF i > Len(s) THEN <<>>
    ELSE IF ScriptMatchLen(s, i) > 0
         THEN StripScriptTags(s, i + ScriptMatchLen(s, i))
         ELSE <<s[i]>> \o StripScriptTags(s, i + 1)
RECURSIVE StripHandlers(_, _)
StripHandlers(s, i) ==
    IF i > Len(s) THEN <<>>
    ELSE IF HandlerMatchLen(s, i) > 0
         THEN StripHandlers(s, i + HandlerMatchLen(s, i))
         ELSE <<s[i]>> \o StripHandlers(s, i + 1)
RECURSIVE StripSchemes(_, _)
StripSchemes(s, i) ==
    IF i > Len(s) THEN <<>>
    ELSE IF SchemeMatchLen(s, i) > 0
         THEN StripSchemes(s, i + SchemeMatchLen(s, i))
         ELSE <<s[i]>> \o StripSchemes(s, i + 1)

stripScripts(s) ==
    StripSchemes(StripHandlers(StripScriptTags(s, 1), 1), 1)

removeNullBytes(s) == SelectSeq(s, LAMBDA c : c # NUL)

\* String.prototype.normalize('NFKC') on the characters of the model
nfkc(c) == IF c = FWLT THEN "<" ELSE c
normalizeUnicode(s) == [i \in 1..Len(s) |-> nfkc(s[i])]

\* str.trim().replace(/\s+/g, ' ')
RECURSIVE CollapseSpaces(_, _)
CollapseSpaces(s, i) ==
    IF i > Len(s) THEN <<>>
    ELSE IF IsSpace(s[i])
         THEN <<" ">> \o CollapseSpaces(s, i + SpaceRun(s, i))
         ELSE <<s[i]>> \o CollapseSpaces(s, i + 1)
RECURSIVE TrailingSpaces(_)
TrailingSpaces(s) ==
    IF s # <<>> /\ IsSpace(s[Len(s)])
    THEN 1 + TrailingSpaces(SubSeq(s, 1, Len(s) - 1)) ELSE 0
trim(s) == SubSeq(s, 1 + SpaceRun(s, 1), Len(s) - TrailingSpaces(s))
cleanWhitespace(s) == CollapseSpaces(trim(s), 1)

\* sanitize: the full pipeline
sanitize(s) ==
    cleanWhitespace(escapeHTML(stripScripts(
        normalizeUnicode(removeNullBytes(s)))))

\* the fragments inputs are made of
Fragments ==
    { <<"&">>, <<"a">>, <<" ">>, <<"<">>, <<NUL>>, <<FWLT>>,
      <<"j", "a", "v", "a">>,
      <<"S", "c", "R", "i", "P", "t", ":">>,
      <<"J", "a", "V", "a", "S", "c", "R", "i", "P", "t", ":">>,
      <<"j", "a", "v", "a",
        "J", "a", "V", "a", "S", "c", "R", "i", "P", "t", ":">>,
      <<"<", "s", "c", "r", "i", "p", "t", ">", "x",
        "<", "/", "s", "c", "r", "i", "p", "t", ">">>,
      <<" ", "o", "n", "e", "r", "r", "o", "r", "=", "'", "x", "'">> }

RECURSIVE Inputs(_)
Inputs(n) ==
    IF n = 0 THEN {<<>>}
    ELSE LET shorter == Inputs(n - 1)
         IN  shorter \cup {f \o x : f \in Fragments, x \in shorter}

LimIdle ==
    /\ config = [maxTokens |-> 1, refillRate |-> 1,
                 refillInterval |-> 1000, cooldownMs |-> 0]
    /\ storage = "ok"
    /\ now = StartTime
    /\ tokens = Num(1)
    /\ lastRefill = StartTime
    /\ storedState = Absent
    /\ storedLastSubmit = NoSubmit
    /\ nextTick = StartTime + 1000
    /\ last = Result("none", TRUE, "none", Num(1), 0)
    /\ pre = [tokens |-> NaN, lastRefill |-> 0, storedState |-> Absent,
              storedLastSubmit |-> NoSubmit]
    /\ hist = NoHist

SanInit ==
    /\ sanIn \in Inputs(MaxFrags)
    /\ sanOut = <<>>
    /\ sanOut2 = <<>>
    /\ sanPc = "start"
    /\ LimIdle
    /\ CrlIdle
    /\ RegIdle
    /\ FnIdle
    /\ FireIdle

\* out = InputSanitizer.sanitize(in)
SanitizeOnce ==
    /\ sanPc = "start"
    /\ sanOut' = sanitize(sanIn)
    /\ sanPc' = "once"
    /\ UNCHANGED <<sanIn, sanOut2, limVars, crlVars, regVars, fnVars, fireVars>>

\* out2 = InputSanitizer.sanitize(out)
SanitizeTwice ==
    /\ sanPc = "once"
    /\ sanOut2' = sanitize(sanOut)
    /\ sanPc' = "twice"
    /\ UNCHANGED <<sanIn, sanOut, limVars, crlVars, regVars, fnVars, fireVars>>

SanNext == SanitizeOnce \/ SanitizeTwice

SanSpec == SanInit /\ [][SanNext]_vars

----------------------------------------------------------------------------
(* Properties of the InputSanitizer *)

\* C7: sanitize is idempotent: sanitize(sanitize(s)) = sanitize(s) for every
\* input string s.
C7_SanitizeIdempotent == sanPc = "twice" => sanOut2 = sanOut


\* does the string hold javascript: in some letter case?
ContainsScheme(s) == \E i \in 1..Len(s) : MatchesAt(s, i, JsScheme)

\* C28: for every input string the output of sanitize contains no
\* javascript: scheme reference in any letter case, also where removing one
\* occurrence joins the characters around it into a new one.
C28_NoSchemeInOutput == sanPc # "start" => ~ContainsScheme(sanOut)

----------------------------------------------------------------------------
(* ClientRateLimiter (src/js/admin.js): a sliding window of attempt times   *)
(* per key, and a block that an overflowing window sets.                    *)

maxAttempts == crlConfig.maxAttempts
windowMs == crlConfig.windowMs
blockDurationMs == crlConfig.blockDurationMs

CrlDeltas == {500, 1000}
WindowLengths == {1000}
BlockDurations == {500, 1500}
CrlConfigs ==
    [maxAttempts : 1..MaxAttemptsBound, windowMs : WindowLengths,
     blockDurationMs : BlockDurations]

\* attempts.filter(t => t > windowStart)
InWindow(ts, windowStart) == SelectSeq(ts, LAMBDA t : t > windowStart)

\* isBlocked(key): the answer, and the blocked map with a lapsed entry removed
isBlocked(blk, key, t) ==
    LET blockUntil == blk[key]
    IN  IF blockUntil # 0 /\ t < blockUntil
        THEN [result |-> TRUE, blocked |-> blk]
        ELSE [result |-> FALSE, blocked |-> [blk EXCEPT ![key] = 0]]

\* recordAttempt that blocks at the maxAttempts-th attempt already
recordAttempt_OffByOne(att, blk, key, t, cfg) ==
    LET b == isBlocked(blk, key, t)
        kept == Append(InWindow(att[key], t - cfg.windowMs), t)
    IN  IF b.result
        THEN [result |-> CrlResult("recordAttempt", key, FALSE,
                                   CeilDiv(blk[key] - t, 1000), 0),
              attempts |-> att, blocked |-> b.blocked]
        ELSE IF Len(kept) >= cfg.maxAttempts
        THEN [result |-> CrlResult("recordAttempt", key, FALSE,
                                   CeilDiv(cfg.blockDurationMs, 1000), 0),
              attempts |-> [att EXCEPT ![key] = kept],
              blocked |-> [b.blocked EXCEPT
                              ![key] = t + cfg.blockDurationMs]]
        ELSE [result |-> CrlResult("recordAttempt", key, TRUE, 0,
                                   cfg.maxAttempts - Len(kept)),
              attempts |-> [att EXCEPT ![key] = kept],
              blocked |-> b.blocked]

\* recordAttempt that also records the attempts made while blocked
recordAttempt_CountBlocked(att, blk, key, t, cfg) ==
    LET b == isBlocked(blk, key, t)
        kept == Append(InWindow(att[key], t - cfg.windowMs), t)
    IN  IF b.result
        THEN [result |-> CrlResult("recordAttempt", key, FALSE,
                                   CeilDiv(blk[key] - t, 1000), 0),
              attempts |-> [att EXCEPT ![key] = kept],
              blocked |-> b.blocked]
        ELSE IF Len(kept) > cfg.maxAttempts
        THEN [result |-> CrlResult("recordAttempt", key, FALSE,
                                   CeilDiv(cfg.blockDurationMs, 1000), 0),
              attempts |-> [att EXCEPT ![key] = kept],
              blocked |-> [b.blocked EXCEPT
                              ![key] = t + cfg.blockDurationMs]]
        ELSE [result |-> CrlResult("recordAttempt", key, TRUE, 0,
                                   cfg.maxAttempts - Len(kept)),
              attempts |-> [att EXCEPT ![key] = kept],
              blocked |-> b.blocked]

\* recordAttempt(key): what it returns and the two maps it leaves
recordAttempt(att, blk, key, t, cfg) ==
    LET b == isBlocked(blk, key, t)
        kept == Append(InWindow(att[key], t - cfg.windowMs), t)
    IN  IF b.result
        THEN [result |-> CrlResult("recordAttempt", key, FALSE,
                                   CeilDiv(blk[key] - t, 1000), 0),
              attempts |-> att, blocked |-> b.blocked]
        ELSE IF Len(kept) > cfg.maxAttempts
        THEN [result |-> CrlResult("recordAttempt", key, FALSE,
                                   CeilDiv(cfg.blockDurationMs, 1000), 0),
              attempts |-> [att EXCEPT ![key] = kept],
              blocked |-> [b.blocked EXCEPT
                              ![key] = t + cfg.blockDurationMs]]
        ELSE [result |-> CrlResult("recordAttempt", key, TRUE, 0,
                                   cfg.maxAttempts - Len(kept)),
              attempts |-> [att EXCEPT ![key] = kept],
              blocked |-> b.blocked]

\* reset that forgets the attempts but keeps the block
reset_KeepBlock(att, blk, key) ==
    [attempts |-> [att EXCEPT ![key] = <<>>], blocked |-> blk]

\* reset(key): both entries of the key deleted
reset(att, blk, key) ==
    [attempts |-> [att EXCEPT ![key] = <<>>],
     blocked |-> [blk EXCEPT ![key] = 0]]

\* the admin page is loaded: rateLimiters.* are constructed empty
CrlInit ==
    /\ crlConfig \in CrlConfigs
    /\ crlNow = StartTime
    /\ attempts = NoAttempts
    /\ blocked = NoBlocks
    /\ signIn = 0
    /\ crlLast = CrlResult("none", "login", TRUE, 0, 0)
    /\ crlPre = [attempts |-> NoAttempts, blocked |-> NoBlocks,
                 calls |-> NoCalls["login"]]
    /\ crlHist = NoCalls
    /\ LimIdle
    /\ SanIdle
    /\ RegIdle
    /\ FnIdle
    /\ FireIdle

CapCalls(n) == IF n > MaxAttemptsBound + 2 THEN MaxAttemptsBound + 2 ELSE n

\* history: one more recordAttempt call for the key
Counted(key) ==
    [crlHist EXCEPT ![key] =
        [n |-> CapCalls(@.n + 1),
         first |-> IF @.n = 0 THEN crlNow ELSE @.first,
         wasReset |-> @.wasReset]]

\* a guarded admin action (delete, update, bulk): recordAttempt(key)
RecordAttempt(key) ==
    LET r == recordAttempt(attempts, blocked, key, crlNow, crlConfig)
    IN  /\ key # "login"
        /\ attempts' = r.attempts
        /\ blocked' = r.blocked
        /\ crlLast' = r.result
        /\ crlPre' = [attempts |-> attempts, blocked |-> blocked,
                      calls |-> crlHist[key]]
        /\ crlHist' = Counted(key)
        /\ UNCHANGED <<crlConfig, crlNow, signIn, limVars, sanVars, regVars, fnVars, fireVars>>

\* handleLogin: recordAttempt('login'); an allowed attempt whose e-mail and
\* password pass the format checks starts signInWithEmailAndPassword
HandleLogin ==
    \E wellFormed \in BOOLEAN :
        LET r == recordAttempt(attempts, blocked, "login", crlNow, crlConfig)
            starts == r.result.allowed /\ wellFormed
        IN  /\ starts => signIn < MaxPending
            /\ attempts' = r.attempts
            /\ blocked' = r.blocked
            /\ crlLast' = r.result
            /\ crlPre' = [attempts |-> attempts, blocked |-> blocked,
                          calls |-> crlHist["login"]]
            /\ crlHist' = Counted("login")
            /\ signIn' = IF starts THEN signIn + 1 ELSE signIn
            /\ UNCHANGED <<crlConfig, crlNow, limVars, sanVars, regVars, fnVars, fireVars>>

\* the sign-in promise is fulfilled: rateLimiters.login.reset('login')
SignInSucceeds ==
    LET r == reset(attempts, blocked, "login")
    IN  /\ signIn > 0
        /\ signIn' = signIn - 1
        /\ attempts' = r.attempts
        /\ blocked' = r.blocked
        /\ crlLast' = CrlResult("signedIn", "login", TRUE, 0, 0)
        /\ crlPre' = [attempts |-> attempts, blocked |-> blocked,
                      calls |-> crlHist["login"]]
        /\ crlHist' = [crlHist EXCEPT
                          !["login"] = [n |-> 0, first |-> 0,
                                        wasReset |-> TRUE]]
        /\ UNCHANGED <<crlConfig, crlNow, limVars, sanVars, regVars, fnVars, fireVars>>

\* the sign-in promise is rejected: an error message, nothing else
SignInFails ==
    /\ signIn > 0
    /\ signIn' = signIn - 1
    /\ crlLast' = CrlResult("signInFailed", "login", FALSE, 0, 0)
    /\ crlPre' = [attempts |-> attempts, blocked |-> blocked,
                  calls |-> crlHist["login"]]
    /\ UNCHANGED <<crlConfig, crlNow, attempts, blocked, crlHist, limVars,
                   sanVars, regVars, fnVars, fireVars>>

\* wall-clock time passes on the admin page
CrlAdvance ==
    \E d \in CrlDeltas :
        /\ crlNow + d <= StartTime + CrlHorizon
        /\ crlNow' = crlNow + d
        /\ crlLast' = CrlResult("advance", "login", TRUE, 0, 0)
        /\ crlPre' = [attempts |-> attempts, blocked |-> blocked,
                      calls |-> crlHist["login"]]
        /\ UNCHANGED <<crlConfig, attempts, blocked, signIn, crlHist,
                       limVars, sanVars, regVars, fnVars, fireVars>>

CrlNext ==
    \/ \E key \in Keys : RecordAttempt(key)
    \/ HandleLogin
    \/ SignInSucceeds
    \/ SignInFails
    \/ CrlAdvance

CrlSpec == CrlInit /\ [][CrlNext]_vars

----------------------------------------------------------------------------
(* Properties of the ClientRateLimiter *)

Attempted == crlLast.op = "recordAttempt"

\* C15: for any key, the first maxAttempts recordAttempt calls are allowed
\* and recorded; the next call, made while the first is still inside the
\* window, is rejected, blocks the key until now + blockDurationMs and
\* returns retryAfter = ceil(blockDurationMs / 1000).
C15_WindowAdmitsMax ==
    Attempted =>
        LET key == crlLast.key
            n == crlPre.calls.n
        IN  /\ n < maxAttempts =>
                   /\ crlLast.allowed
                   /\ attempts[key] # <<>>
                   /\ attempts[key][Len(attempts[key])] = crlNow
            /\ (n = maxAttempts /\ crlNow - crlPre.calls.first < windowMs) =>
                   /\ ~crlLast.allowed
                   /\ blocked[key] = crlNow + blockDurationMs
                   /\ 1000 * crlLast.retryAfter >= blockDurationMs
                   /\ 1000 * (crlLast.retryAfter - 1) < blockDurationMs

\* C15 witness: two attempts passed and the third, 500 ms after the first,
\* was rejected and blocked the key for 1500 ms, reported as 2 s
C15_Witness ==
    /\ Attempted
    /\ maxAttempts = 2
    /\ crlPre.calls.n = 2
    /\ crlNow - crlPre.calls.first = 500
    /\ ~crlLast.allowed
    /\ blockDurationMs = 1500
    /\ blocked[crlLast.key] = crlNow + 1500
    /\ crlLast.retryAfter = 2

\* C16: while a key is blocked (now < blockUntil) every recordAttempt for it
\* returns allowed = false with retryAfter = ceil((blockUntil - now) / 1000)
\* > 0, records nothing and leaves the block where it was.
C16_BlockedRejects ==
    (Attempted /\ crlPre.blocked[crlLast.key] # 0
               /\ crlNow < crlPre.blocked[crlLast.key]) =>
        LET remainingMs == crlPre.blocked[crlLast.key] - crlNow
        IN  /\ ~crlLast.allowed
            /\ crlLast.retryAfter > 0
            /\ 1000 * crlLast.retryAfter >= remainingMs
            /\ 1000 * (crlLast.retryAfter - 1) < remainingMs
            /\ attempts = crlPre.attempts
            /\ blocked = crlPre.blocked

\* C16 witness: an attempt 500 ms before the end of a block was turned away
\* with retryAfter = 1 and left both maps as they were
C16_Witness ==
    /\ Attempted
    /\ crlPre.blocked[crlLast.key] - crlNow = 500
    /\ ~crlLast.allowed
    /\ crlLast.retryAfter = 1
    /\ attempts = crlPre.attempts
    /\ blocked = crlPre.blocked

\* C17: reset(key), which a successful admin login performs for the login
\* key, clears the attempts and the block of that key and leaves every other
\* key as it was; the next maxAttempts attempts for the key are allowed as
\* on a fresh limiter.
C17_ResetClears ==
    /\ crlLast.op = "signedIn" =>
           /\ attempts["login"] = <<>>
           /\ blocked["login"] = 0
           /\ \A k \in Keys \ {"login"} :
                  /\ attempts[k] = crlPre.attempts[k]
                  /\ blocked[k] = crlPre.blocked[k]
    /\ (Attempted /\ crlPre.calls.wasReset
                  /\ crlPre.calls.n < maxAttempts) => crlLast.allowed

\* C17 witness: a login succeeded while the login key was blocked and another
\* key had attempts and a block of its own
C17_Witness ==
    /\ crlLast.op = "signedIn"
    /\ crlPre.blocked["login"] > crlNow
    /\ crlPre.attempts["login"] # <<>>
    /\ attempts["bulk"] # <<>>
    /\ blocked["bulk"] > crlNow
    /\ blocked["login"] = 0

\* C37: once blockDurationMs has elapsed since a key was blocked (the clock
\* has reached blockUntil), the next recordAttempt for that key is allowed,
\* whatever the configuration, blockDurationMs shorter than windowMs
\* included.
C37_AllowedAfterBlock ==
    (Attempted /\ crlPre.blocked[crlLast.key] # 0
               /\ crlNow >= crlPre.blocked[crlLast.key]) =>
        crlLast.allowed

----------------------------------------------------------------------------
(* InputValidator (src/security.js).  Form fields hold strings (sequences   *)
(* of characters); a validated value is a string or null.                   *)

Str(s) == [k |-> "string", v |-> s]
JsNull == [k |-> "null", v |-> <<>>]

IsLetter(c) == \E i \in 1..26 : c = UpperCase[i] \/ c = LowerCase[i]
IsUpper(c) == \E i \in 1..26 : c = UpperCase[i]
IsDigit(c) == c \in Digits

\* String.prototype.toUpperCase, character by character
Upper(c) ==
    IF \E i \in 1..26 : LowerCase[i] = c
    THEN UpperCase[CHOOSE i \in 1..26 : LowerCase[i] = c]
    ELSE c
\* a USN left in the case it was typed in
toUpperCase_Keep(s) == s
\* String.prototype.toUpperCase
toUpperCase(s) == [i \in 1..Len(s) |-> Upper(s[i])]

\* SECURITY_CONFIG.validation: the length limits
TeamNameMin == 2
TeamNameMax == 50
EmailMin == 5
EmailMax == 100
MemberNameMin == 2
MemberNameMax == 50
UsnMin == 10
UsnMax == 15
PasswordMin == 8
PasswordMax == 128

\* teamName.pattern: /^[A-Za-z0-9 ]+$/
TeamNamePattern(s) ==
    s # <<>> /\ \A i \in 1..Len(s) : IsLetter(s[i]) \/ IsDigit(s[i]) \/ s[i] = " "

\* memberName.pattern: /^[A-Za-z ]+$/
MemberNamePattern(s) ==
    s # <<>> /\ \A i \in 1..Len(s) : IsLetter(s[i]) \/ s[i] = " "

\* email.pattern: /^[^\s@]+@[^\s@]+\.[^\s@]+$/
EmailPattern(s) ==
    \E a \in 2..Len(s) : \E d \in (a + 2)..(Len(s) - 1) :
        /\ s[a] = "@"
        /\ s[d] = "."
        /\ \A i \in 1..Len(s) : i # a => (s[i] # "@" /\ ~IsSpace(s[i]))

\* usn.pattern: /^1[A-Z]{2}[0-9]{2}[A-Z]{2}[0-9]{3}$/
UsnPattern(s) ==
    /\ Len(s) = 10
    /\ s[1] = "1"
    /\ IsUpper(s[2]) /\ IsUpper(s[3])
    /\ IsDigit(s[4]) /\ IsDigit(s[5])
    /\ IsUpper(s[6]) /\ IsUpper(s[7])
    /\ IsDigit(s[8]) /\ IsDigit(s[9]) /\ IsDigit(s[10])

\* department.allowedValues
AllowedDepartments ==
    { <<"I", "S", "E">>, <<"C", "S", "E">>, <<"A", "I", "M", "L">>,
      <<"A", "I", "&", "D", "S">>, <<"E", "C", "E">>, <<"E", "E", "E">>,
      <<"C", "V">>, <<"M", "E">>,
      <<"M", "e", "c", "h", "a", "t", "r", "o", "n", "i", "c", "s">>,
      <<"O", "t", "h", "e", "r">>, <<>> }

Invalid(error) == [valid |-> FALSE, error |-> error, value |-> JsNull]
Valid(value) == [valid |-> TRUE, error |-> "", value |-> value]

validateEmail(email) ==
    LET trimmed == trim(email)
    IN  IF trimmed = <<>> THEN Invalid("Email is required")
        ELSE IF Len(trimmed) < EmailMin
        THEN Invalid("Email must be at least 5 characters")
        ELSE IF Len(trimmed) > EmailMax
        THEN Invalid("Email must be less than 100 characters")
        ELSE IF ~EmailPattern(trimmed)
        THEN Invalid("Must be a valid email address")
        ELSE Valid(Str(trimmed))

\* a validateTeamName that tests the pattern before the lengths
validateTeamName_PatternFirst(name) ==
    LET trimmed == trim(name)
    IN  IF trimmed = <<>> THEN Invalid("Team name is required")
        ELSE IF ~TeamNamePattern(trimmed)
        THEN Invalid("Only letters, numbers, and spaces allowed")
        ELSE IF Len(trimmed) < TeamNameMin
        THEN Invalid("Team name must be at least 2 characters")
        ELSE IF Len(trimmed) > TeamNameMax
        THEN Invalid("Team name must be less than 50 characters")
        ELSE Valid(Str(trimmed))

validateTeamName(name) ==
    LET trimmed == trim(name)
    IN  IF trimmed = <<>> THEN Invalid("Team name is required")
        ELSE IF Len(trimmed) < TeamNameMin
        THEN Invalid("Team name must be at least 2 characters")
        ELSE IF Len(trimmed) > TeamNameMax
        THEN Invalid("Team name must be less than 50 characters")
        ELSE IF ~TeamNamePattern(trimmed)
        THEN Invalid("Only letters, numbers, and spaces allowed")
        ELSE Valid(Str(trimmed))

validateMemberName(name, required) ==
    LET trimmed == trim(name)
    IN  IF trimmed = <<>>
        THEN IF required THEN Invalid("Name is required") ELSE Valid(JsNull)
        ELSE IF Len(trimmed) < MemberNameMin
        THEN Invalid("Name must be at least 2 characters")
        ELSE IF Len(trimmed) > MemberNameMax
        THEN Invalid("Name must be less than 50 characters")
        ELSE IF ~MemberNamePattern(trimmed)
        THEN Invalid("Only letters and spaces allowed")
        ELSE Valid(Str(trimmed))

validateUSN(usn, required) ==
    LET trimmed == toUpperCase(trim(usn))
    IN  IF trimmed = <<>>
        THEN IF required THEN Invalid("USN is required") ELSE Valid(JsNull)
        ELSE IF Len(trimmed) < UsnMin \/ Len(trimmed) > UsnMax
        THEN Invalid("USN must be between 10-15 characters")
        ELSE IF ~UsnPattern(trimmed)
        THEN Invalid("Format: 1XX00XX000 (e.g., 1CR23CS001)")
        ELSE Valid(Str(trimmed))

validateDepartment(dept, required) ==
    LET value == trim(dept)
    IN  IF value = <<>>
        THEN IF required THEN Invalid("Department is required")
             ELSE Valid(JsNull)
        ELSE IF value \notin AllowedDepartments
        THEN Invalid("Invalid department selection")
        ELSE Valid(Str(value))

validatePassword(password) ==
    IF password = <<>> THEN Invalid("Password is required")
    ELSE IF Len(password) < PasswordMin
    THEN Invalid("Password must be at least 8 characters")
    ELSE IF Len(password) > PasswordMax
    THEN Invalid("Password is too long")
    ELSE Valid(Str(password))

\* a whole-form result that puts every field into sanitized
FormResult_KeepAll(results) ==
    LET bad == {f \in DOMAIN results : ~results[f].valid}
    IN  [valid |-> bad = {},
         errors |-> [f \in bad |-> results[f].error],
         sanitized |-> [f \in DOMAIN results |-> results[f].value]]

\* errors and sanitized, built from the per-field results
FormResult(results) ==
    LET bad == {f \in DOMAIN results : ~results[f].valid}
    IN  [valid |-> bad = {},
         errors |-> [f \in bad |-> results[f].error],
         sanitized |-> [f \in DOMAIN results \ bad |-> results[f].value]]

validateRegistrationForm(formData) ==
    FormResult(
        [teamEmail |-> validateEmail(formData.teamEmail),
         teamName |-> validateTeamName(formData.teamName),
         member1Name |-> validateMemberName(formData.member1Name, TRUE),
         member1USN |-> validateUSN(formData.member1USN, TRUE),
         member1Dept |-> validateDepartment(formData.member1Dept, TRUE),
         member2Name |-> validateMemberName(formData.member2Name, FALSE),
         member2USN |-> validateUSN(formData.member2USN, FALSE),
         member2Dept |-> validateDepartment(formData.member2Dept, FALSE),
         member3Name |-> validateMemberName(formData.member3Name, FALSE),
         member3USN |-> validateUSN(formData.member3USN, FALSE),
         member3Dept |-> validateDepartment(formData.member3Dept, FALSE)])

validateLoginForm(formData) ==
    FormResult(
        [username |-> validateEmail(formData.username),
         password |-> validatePassword(formData.password)])

\* SECURITY_CONFIG.allowedFields
AllowedFields(formType) ==
    IF formType = "registration"
    THEN {"teamEmail", "teamName", "member1Name", "member1USN",
          "member1Dept", "member2Name", "member2USN", "member2Dept",
          "member3Name", "member3USN", "member3Dept"}
    ELSE {"username", "password"}

checkUnexpectedFields(formData, formType) ==
    {key \in DOMAIN formData : key \notin AllowedFields(formType)}

\* the other values an object may hold: numbers, booleans, arrays and plain
\* objects (functions from property names to values)
JsNumber(n) == [k |-> "number", v |-> n]
JsBoolean(b) == [k |-> "boolean", v |-> b]
JsArray(elements) == [k |-> "array", v |-> elements]
JsObject(properties) == [k |-> "object", v |-> properties]

\* result[key] = value on an object literal: the name __proto__ reaches the
\* accessor of Object.prototype, which sets the prototype (or ignores a
\* primitive) and creates no property
ProtoKey == "__proto__"

\* InputSanitizer.sanitizeObject: the own properties of the result
RECURSIVE sanitizeObject(_)
sanitizeObject(obj) ==
    [key \in DOMAIN obj \ {ProtoKey} |->
        LET value == obj[key]
        IN  IF value.k = "string" THEN Str(sanitize(value.v))
            ELSE IF value.k = "object"
            THEN JsObject(sanitizeObject(value.v))
            ELSE value]

----------------------------------------------------------------------------
(* ButtonDebouncer and the SecurityManager coordinator (src/security.js)    *)

\* what the user may have typed into the registration form
GoodForm ==
    [teamEmail |-> <<"a", "@", "b", ".", "c">>,
     teamName |-> <<"T", "1">>,
     member1Name |-> <<"A", "l">>,
     member1USN |-> <<"1", "c", "r", "2", "3", "c", "s", "0", "0", "1">>,
     member1Dept |-> <<"C", "S", "E">>,
     member1Sem |-> <<"3">>,
     member2Name |-> <<>>, member2USN |-> <<>>, member2Dept |-> <<>>,
     member2Sem |-> <<>>,
     member3Name |-> <<>>, member3USN |-> <<>>, member3Dept |-> <<>>,
     member3Sem |-> <<>>]
RegistrationForms ==
    { GoodForm,
      [GoodForm EXCEPT !.teamName = <<" ", "T", "2">>,
                       !.teamEmail = <<"a", "&", "@", "b", ".", "c">>,
                       !.member2Name = <<"B", "o">>,
                       !.member2Sem = <<"<">>],
      [GoodForm EXCEPT !.teamName = <<"A", "<", "b">>],
      [GoodForm EXCEPT !.teamEmail = <<>>, !.member3USN = <<"1">>] }

\* what the users of several browsers may have typed: two teams that ask for the name T1, and a team that asks for T2
RaceForms ==
    { GoodForm,
      [GoodForm EXCEPT !.teamName = <<" ", "T", "1">>,
                       !.member1Name = <<"B", "o">>],
      [GoodForm EXCEPT !.teamName = <<"T", "2">>] }

\* what the user may have typed into the login form
LoginForms ==
    { [username |-> <<"a", "@", "b", ".", "c">>,
       password |-> <<"p", "a", "s", "s", "w", "o", "r", "d">>],
      [username |-> <<"a", "@", "b", ".", "c">>,
       password |-> <<"p", "w">>],
      [username |-> <<"a", "b">>,
       password |-> <<"p", "a", "s", "s", "w", "o", "r", "d">>],
      [username |-> <<"a", "&", "@", "b", ".", "c">>,
       password |-> <<"p", "<", "s", "s", "w", "o", "r", "d">>],
      [username |-> <<"a", "@", "b", ".", "c">>,
       password |-> <<"p", "a", "s", "s", "w", "o", "r", "d">>,
       role |-> <<"a", "d", "m", "i", "n">>] }

\* the forms of a page, and a form without the keys outside the whitelist
FormsOf(formType) ==
    IF formType = "registration" THEN RegistrationForms ELSE LoginForms
Whitelisted(formType, formData) ==
    [f \in DOMAIN formData \cap AllowedFields(formType) |-> formData[f]]
KnownForms(formType) ==
    FormsOf(formType)
        \cup {Whitelisted(formType, f) : f \in FormsOf(formType)}
        \cup (IF formType = "registration" THEN RaceForms ELSE {})

\* whole-form validation of each form the user may submit (the comparison
\* makes TLC hold the table as an explicit function)
ValidationOf ==
    [x \in UNION {{t} \X KnownForms(t) : t \in {"registration", "login"}} |->
        IF x[1] = "registration" THEN validateRegistrationForm(x[2])
        ELSE validateLoginForm(x[2])]
Validation == IF ValidationOf = ValidationOf THEN ValidationOf ELSE ValidationOf

\* InputSanitizer.sanitizeObject of each form's validated values
SanitizedOf == [x \in DOMAIN Validation |-> sanitizeObject(Validation[x].sanitized)]
Sanitized == IF SanitizedOf = SanitizedOf THEN SanitizedOf ELSE SanitizedOf

SpinnerValidating == "<span class=spinner></span> Validating..."
SpinnerSigningIn == "<span class=spinner></span> Signing in..."

\* ButtonDebouncer.setLoading
setLoading(button, spinner) ==
    [disabled |-> TRUE, originalHTML |-> button.innerHTML,
     innerHTML |-> spinner]

\* ButtonDebouncer.restoreFromLoading
restoreFromLoading(button) ==
    [button EXCEPT
        !.disabled = FALSE,
        !.innerHTML = IF button.originalHTML # Unset
                         /\ button.originalHTML # ""
                      THEN button.originalHTML ELSE @]

Outcome(type, validated, errors, data, unexpected) ==
    [type |-> type, success |-> type = "VALIDATED", validated |-> validated,
     errors |-> errors, data |-> data, unexpected |-> unexpected]

\* the coordinator validating before it looks at the limiter's answer
process_ValidateFirst(formType, allowed, formData, button) ==
    LET loading == setLoading(button,
                       IF formType = "registration"
                       THEN SpinnerValidating ELSE SpinnerSigningIn)
        validation == Validation[<<formType, formData>>]
    IN  IF ~validation.valid
        THEN [outcome |-> Outcome("VALIDATION_ERROR", TRUE,
                                  validation.errors, NoFields, {}),
              button |-> restoreFromLoading(loading)]
        ELSE IF ~allowed
        THEN [outcome |-> Outcome("RATE_LIMITED", TRUE, NoFields,
                                  NoFields, {}),
              button |-> restoreFromLoading(loading)]
        ELSE [outcome |-> Outcome("VALIDATED", TRUE, NoFields,
                                  IF formType = "registration"
                                  THEN Sanitized[<<formType, formData>>]
                                  ELSE validation.sanitized, {}),
              button |-> loading]

\* the coordinator restoring the button on the accepted path as well
process_RestoreAlways(formType, allowed, formData, button) ==
    LET loading == setLoading(button,
                       IF formType = "registration"
                       THEN SpinnerValidating ELSE SpinnerSigningIn)
        validation == Validation[<<formType, formData>>]
    IN  IF ~allowed
        THEN [outcome |-> Outcome("RATE_LIMITED", FALSE, NoFields,
                                  NoFields, {}),
              button |-> restoreFromLoading(loading)]
        ELSE IF ~validation.valid
        THEN [outcome |-> Outcome("VALIDATION_ERROR", TRUE,
                                  validation.errors, NoFields, {}),
              button |-> restoreFromLoading(loading)]
        ELSE [outcome |-> Outcome("VALIDATED", TRUE, NoFields,
                                  IF formType = "registration"
                                  THEN Sanitized[<<formType, formData>>]
                                  ELSE validation.sanitized, {}),
              button |-> restoreFromLoading(loading)]

\* processRegistration / processLogin, given what tryConsume answered: the
\* result and the button as the coordinator leaves it
process(formType, allowed, formData, button) ==
    LET loading == setLoading(button,
                       IF formType = "registration"
                       THEN SpinnerValidating ELSE SpinnerSigningIn)
        unexpected == IF formType = "registration"
                      THEN checkUnexpectedFields(formData, formType)
                      ELSE {}
        validation == Validation[<<formType, formData>>]
    IN  IF ~allowed
        THEN [outcome |-> Outcome("RATE_LIMITED", FALSE, NoFields,
                                  NoFields, {}),
              button |-> restoreFromLoading(loading)]
        ELSE IF ~validation.valid
        THEN [outcome |-> Outcome("VALIDATION_ERROR", TRUE,
                                  validation.errors, NoFields, unexpected),
              button |-> restoreFromLoading(loading)]
        ELSE [outcome |-> Outcome("VALIDATED", TRUE, NoFields,
                                  IF formType = "registration"
                                  THEN Sanitized[<<formType, formData>>]
                                  ELSE validation.sanitized, unexpected),
              button |-> loading]

----------------------------------------------------------------------------
(* The registration page's submit handler (src/unnamed/part_000) and a      *)
(* login page driving processLogin.                                         *)

\* init(pageType) creates the page's limiter from SECURITY_CONFIG.rateLimiting
\* (a second for each minute of registration and for each five minutes of
\* login; the login entry has lockoutMs and no cooldownMs)
RegDeltas == {1000}
RegHorizon == 1000
RegistrationLimiter ==
    [maxTokens |-> MaxTokensBound, refillRate |-> 1, refillInterval |-> 1000,
     cooldownMs |-> 1000]
LoginLimiter ==
    [maxTokens |-> MaxTokensBound, refillRate |-> 1, refillInterval |-> 1000,
     cooldownMs |-> 0, lockoutMs |-> 3000]

\* does the button still hold the .btn-text span?
HasBtnText(button) == button.innerHTML \in {RegisterLabel, VerifyingLabel}

\* btn.querySelector('.btn-text').textContent = label
WithLabel(button, label) == [button EXCEPT !.innerHTML = label]

\* formData.x = result.data.x for the eleven validated fields; the semester
\* fields keep what the user typed
Merge(formData, data) ==
    [f \in DOMAIN formData |->
        IF f \in DOMAIN data THEN data[f] ELSE Str(formData[f])]

\* x || null
OrNull(x) == IF x.k = "string" /\ x.v # <<>> THEN x ELSE JsNull

\* the document handed to db.collection('registrations').add
Doc(form, activeEvent) ==
    [teamName |-> form.teamName, email |-> form.teamEmail,
     event |-> activeEvent,
     member1 |-> [name |-> form.member1Name, usn |-> form.member1USN,
                  dept |-> form.member1Dept, semester |-> form.member1Sem],
     member2 |-> [name |-> OrNull(form.member2Name),
                  usn |-> OrNull(form.member2USN),
                  dept |-> OrNull(form.member2Dept),
                  semester |-> OrNull(form.member2Sem)],
     member3 |-> [name |-> OrNull(form.member3Name),
                  usn |-> OrNull(form.member3USN),
                  dept |-> OrNull(form.member3Dept),
                  semester |-> OrNull(form.member3Sem)],
     status |-> "pending"]

\* a registration another client made earlier under the name T1
TakenDoc ==
    Doc(Merge(GoodForm,
              sanitizeObject(validateRegistrationForm(GoodForm).sanitized)),
        "testing")

\* where('teamName', '==', formData.teamName).get(): is the snapshot empty?
NoSuchTeam(docs, form) == \A d \in docs : d.teamName # form.teamName

\* a finally block that does not restore the button
finallyRestore_Skip(button) == button

\* finally { ButtonDebouncer.restoreFromLoading(btn) }
finallyRestore(button) == restoreFromLoading(button)

\* the page is loaded: init(pageType) constructs the limiter
RegInit ==
    /\ pageType \in {"registration", "login"}
    /\ config = IF pageType = "registration"
                THEN RegistrationLimiter ELSE LoginLimiter
    /\ storage \in {"ok", "disabled"}
    /\ now = StartTime
    /\ storedLastSubmit = NoSubmit
    /\ \E s0 \in IF storage = "disabled" THEN {Absent}
                 ELSE {Absent, Json(Num(0), Num(StartTime))} :
         LET c == construct(storage, s0, now, config)
         IN  /\ tokens = c.tokens
             /\ lastRefill = c.lastRefill
             /\ storedState = c.stored
             /\ pre = [tokens |-> NaN, lastRefill |-> 0, storedState |-> s0,
                       storedLastSubmit |-> storedLastSubmit]
             /\ last = [Result("construct", TRUE, "none", c.tokens, 0)
                          EXCEPT !.threw =
                              constructThrows(storage, s0, now, config)]
    /\ nextTick = now + refillInterval
    /\ hist = [NoHist EXCEPT !.fullStart = tokens = Num(maxTokens)]
    /\ btn = FreshButton
    /\ regPc = "idle"
    /\ regForm = NoFields
    /\ regOut = NoOutcome
    /\ store \in {{}, {TakenDoc}}
    /\ regLast = "none"
    /\ btnBefore = FreshButton
    /\ btnReturned = FreshButton
    /\ regIn = NoFields
    /\ drained = NoDrain
    /\ SanIdle
    /\ CrlIdle
    /\ FnIdle
    /\ FireIdle

\* the states a button can be in
ButtonHTML ==
    {RegisterLabel, VerifyingLabel, SpinnerValidating, SpinnerSigningIn}
Buttons ==
    [disabled : BOOLEAN, innerHTML : ButtonHTML,
     originalHTML : ButtonHTML \cup {Unset}]


\* formData is read from the fields and handed to processRegistration with
\* the button; the handler then acts on the outcome, up to its next await
RunCoordinator(formData, button) ==
    /\ TryConsumeEffect
    /\ \E r \in {process(pageType, last'.allowed, formData, button)} :
           /\ regOut' = r.outcome
           /\ btnBefore' = button
           /\ btnReturned' = r.button
           /\ regIn' = formData
           /\ regLast' = "processed"
           /\ IF r.outcome.type = "RATE_LIMITED"
              THEN /\ btn' = r.button
                   /\ regPc' = "idle"
                   /\ regForm' = NoFields
              ELSE IF r.outcome.type = "VALIDATION_ERROR"
              THEN /\ btn' = restoreFromLoading(r.button)
                   /\ regPc' = "idle"
                   /\ regForm' = NoFields
              ELSE /\ btn' = r.button
                   /\ regPc' = "query"
                   /\ regForm' = Merge(formData, r.outcome.data)
    /\ UNCHANGED <<pageType, drained, store, sanVars, crlVars, fnVars, fireVars>>

\* the submit event of the registration form: with grecaptcha loaded the
\* handler first awaits a token, the button disabled and relabelled
Submit ==
    /\ pageType = "registration"
    /\ regPc = "idle"
    /\ ~btn.disabled
    /\ \E captcha \in BOOLEAN :
        IF captcha /\ HasBtnText(btn)
        THEN /\ btn' = WithLabel([btn EXCEPT !.disabled = TRUE],
                                 VerifyingLabel)
             /\ regPc' = "recaptcha"
             /\ regLast' = "submitted"
             /\ UNCHANGED <<pageType, drained, regForm, regOut, store, btnBefore,
                            btnReturned, regIn, limVars, sanVars, crlVars, fnVars, fireVars>>
        ELSE \E formData \in RegistrationForms :
                 RunCoordinator(formData,
                                [btn EXCEPT !.disabled = captcha])

\* grecaptcha.execute settles: fulfilled, the button is given back; rejected,
\* the catch clause only warns
CaptchaSettles ==
    /\ regPc = "recaptcha"
    /\ \E fulfilled \in BOOLEAN, formData \in RegistrationForms :
        RunCoordinator(formData,
                       IF fulfilled /\ HasBtnText(btn)
                       THEN WithLabel([btn EXCEPT !.disabled = FALSE],
                                      RegisterLabel)
                       ELSE btn)

\* the duplicate-name query settles
QuerySettles ==
    /\ regPc = "query"
    /\ \E fulfilled \in BOOLEAN :
        IF ~fulfilled
        THEN /\ btn' = finallyRestore(btn)
             /\ regPc' = "idle"
             /\ regLast' = "failed"
             /\ regForm' = NoFields
        ELSE IF ~NoSuchTeam(store, regForm)
        THEN /\ btn' = finallyRestore(restoreFromLoading(btn))
             /\ regPc' = "idle"
             /\ regLast' = "duplicate"
             /\ regForm' = NoFields
        ELSE /\ regPc' = "config"
             /\ regLast' = "queried"
             /\ UNCHANGED <<btn, regForm>>
    /\ UNCHANGED <<pageType, drained, regOut, store, btnBefore, btnReturned, regIn,
                   limVars, sanVars, crlVars, fnVars, fireVars>>

\* the read of config/registration settles: activeEvent is what it names,
\* or testing when it names nothing or fails
ConfigSettles ==
    /\ regPc = "config"
    /\ \E activeEvent \in {"testing", "live"} :
        regForm' = [f \in DOMAIN regForm \cup {"event"} |->
                       IF f = "event" THEN activeEvent ELSE regForm[f]]
    /\ regPc' = "add"
    /\ regLast' = "configured"
    /\ UNCHANGED <<pageType, drained, btn, regOut, store, btnBefore, btnReturned,
                   regIn, limVars, sanVars, crlVars, fnVars, fireVars>>

\* the write settles: try's tail or catch, then finally
AddSettles ==
    /\ regPc = "add"
    /\ \E fulfilled \in BOOLEAN :
        /\ store' = IF fulfilled
                    THEN store \cup {Doc(regForm, regForm.event)}
                    ELSE store
        /\ regLast' = IF fulfilled THEN "added" ELSE "failed"
    /\ btn' = finallyRestore(btn)
    /\ regPc' = "idle"
    /\ regForm' = NoFields
    /\ UNCHANGED <<pageType, drained, regOut, btnBefore, btnReturned, regIn,
                   limVars, sanVars, crlVars, fnVars, fireVars>>

\* the submit event of a login form handed to processLogin
SubmitLogin ==
    /\ pageType = "login"
    /\ ~btn.disabled
    /\ \E formData \in LoginForms :
        /\ TryConsumeEffect
        /\ \E r \in {process(pageType, last'.allowed, formData, btn)} :
               /\ regOut' = r.outcome
               /\ btnBefore' = btn
               /\ btnReturned' = r.button
               /\ regIn' = formData
               /\ btn' = r.button
    /\ drained' = [at |-> IF last'.allowed /\ tokens' = Num(0)
                          THEN now ELSE drained.at,
                   before |-> drained.at]
    /\ regLast' = "processed"
    /\ UNCHANGED <<pageType, regPc, regForm, store, sanVars, crlVars, fnVars, fireVars>>

\* the page is reloaded: the handler in progress is gone, the markup fresh
RegReload ==
    /\ ReloadEffect
    /\ btn' = FreshButton
    /\ regPc' = "idle"
    /\ regForm' = NoFields
    /\ regOut' = NoOutcome
    /\ regLast' = "reloaded"
    /\ btnBefore' = FreshButton
    /\ btnReturned' = FreshButton
    /\ regIn' = NoFields
    /\ UNCHANGED <<pageType, drained, store, sanVars, crlVars, fnVars, fireVars>>

\* time passing and the refill timer leave the handler where it is
RegAdvance ==
    \E d \in RegDeltas :
        /\ now + d <= StartTime + RegHorizon
        /\ AdvanceBy(d)
        /\ UNCHANGED <<sanVars, crlVars, regVars, fnVars, fireVars>>
RegRefillTick == RefillTick /\ regLast' = regLast

RegNext ==
    \/ Submit
    \/ CaptchaSettles
    \/ QuerySettles
    \/ ConfigSettles
    \/ AddSettles
    \/ SubmitLogin
    \/ RegReload
    \/ RegAdvance
    \/ RegRefillTick

RegSpec == RegInit /\ [][RegNext]_vars

\* every awaited promise settles
RegLive ==
    /\ RegSpec
    /\ WF_vars(CaptchaSettles)
    /\ WF_vars(QuerySettles)
    /\ WF_vars(ConfigSettles)
    /\ WF_vars(AddSettles)

----------------------------------------------------------------------------
(* Properties of the coordinator and of the submit handler *)

\* the coordinator has just returned
Processing == regLast = "processed" /\ Called

Rejections == {"RATE_LIMITED", "VALIDATION_ERROR"}

\* C18: each submission the coordinator processes yields exactly one of
\* three outcomes, decided in this order: RATE_LIMITED exactly when
\* tryConsume rejects, the form then not being validated; otherwise
\* VALIDATION_ERROR, with the errors, exactly when whole-form validation is
\* invalid; otherwise the accepted outcome carrying the data.
C18_ThreeOutcomes ==
    Processing =>
        LET validation == Validation[<<pageType, regIn>>]
        IN  /\ regOut.type \in Rejections \cup {"VALIDATED"}
            /\ regOut.type = "RATE_LIMITED" <=> ~last.allowed
            /\ regOut.type = "RATE_LIMITED" => ~regOut.validated
            /\ regOut.type = "VALIDATION_ERROR" <=>
                   (last.allowed /\ ~validation.valid)
            /\ regOut.type = "VALIDATION_ERROR" =>
                   (regOut.errors = validation.errors
                        /\ DOMAIN regOut.errors # {})
            /\ regOut.type = "VALIDATED" <=>
                   (last.allowed /\ validation.valid)
            /\ regOut.type = "VALIDATED" =>
                   (regOut.success
                        /\ DOMAIN regOut.data = DOMAIN validation.sanitized
                        /\ DOMAIN regOut.data # {})

\* C18 witness: an invalid form met an empty bucket and was answered
\* RATE_LIMITED without being validated
C18_Witness ==
    /\ Processing
    /\ ~Validation[<<pageType, regIn>>].valid
    /\ last.errorType = "RATE_LIMITED"
    /\ regOut.type = "RATE_LIMITED"
    /\ ~regOut.validated

\* the button is enabled and shows what it showed when the coordinator
\* received it
Restored ==
    ~btnReturned.disabled /\ btnReturned.innerHTML = btnBefore.innerHTML

\* C19: when the coordinator returns, the submit control has been restored
\* (enabled, original content) if and only if the outcome is RATE_LIMITED or
\* VALIDATION_ERROR; on the accepted outcome it is left disabled, showing
\* the busy indicator.
C19_RestoredIffRejected ==
    Processing =>
        /\ Restored <=> regOut.type \in Rejections
        /\ regOut.type = "VALIDATED" =>
               /\ btnReturned.disabled
               /\ btnReturned.innerHTML \in
                      {SpinnerValidating, SpinnerSigningIn}

\* C19 witness: a form that failed validation was handed in with a button
\* the reCAPTCHA step had left disabled; the coordinator returned it enabled
C19_Witness ==
    /\ Processing
    /\ regOut.type = "VALIDATION_ERROR"
    /\ btnBefore.disabled
    /\ btnBefore.innerHTML = VerifyingLabel
    /\ Restored

\* the submit handler has finished and the button can be used again
Released == regPc = "idle" /\ ~btn.disabled

\* C20: every submit event of the registration form eventually leaves the
\* submit button re-enabled, whether the submission is rate-limited, invalid,
\* a duplicate team name, written or failed to be written.
C20_EventuallyReenabled == (pageType = "registration") ~> Released

\* C20 witness: the write failed and the finally block gave the button back
C20_Witness ==
    /\ pageType = "registration"
    /\ regLast = "failed"
    /\ regOut.type = "VALIDATED"
    /\ Released
    /\ btn.innerHTML = btn.originalHTML

\* C21: in every accepted outcome, of the registration form and of the login
\* form alike, each string value of the returned data is the sanitized form
\* (InputSanitizer.sanitize) of the corresponding validated value.
C21_AcceptedDataSanitized ==
    (Processing /\ regOut.type = "VALIDATED") =>
        LET validated == Validation[<<pageType, regIn>>].sanitized
            clean == Sanitized[<<pageType, regIn>>]
        IN  \A f \in DOMAIN validated :
                validated[f].k = "string" =>
                    (f \in DOMAIN regOut.data /\ regOut.data[f] = clean[f])

\* C22: for a submission of either form type that reaches the detection,
\* the keys reported are exactly the input keys outside the form type's
\* whitelist, the outcome is that of the same input without those keys, and
\* no such key is in the accepted data.
C22_UnexpectedLoggedOnly ==
    (Processing /\ last.allowed) =>
        LET bare == process(pageType, TRUE, Whitelisted(pageType, regIn),
                            btnBefore).outcome
        IN  /\ regOut.unexpected = checkUnexpectedFields(regIn, pageType)
            /\ regOut.type = bare.type
            /\ regOut.errors = bare.errors
            /\ regOut.data = bare.data
            /\ DOMAIN regOut.data \subseteq AllowedFields(pageType)

\* the user-supplied values of a stored registration
DocValues(d) ==
    {d.teamName, d.email}
        \cup {d[m][x] : m \in {"member1", "member2", "member3"},
                        x \in {"name", "usn", "dept", "semester"}}

\* C23: in the registration flow a field outside the registration whitelist
\* is dropped: its raw value never appears in the record handed to the data
\* store.
C23_NonWhitelistedDropped ==
    regLast = "added" =>
        \A d \in store :
            d.teamName = regOut.data.teamName =>
                \A key \in checkUnexpectedFields(regIn, "registration") :
                    regIn[key] # <<>> => Str(regIn[key]) \notin DocValues(d)

\* C30: once a tryConsume has taken the login limiter's last token, no
\* tryConsume on it is allowed until lockoutMs (15 minutes) have passed
\* (stated where localStorage works, so that the bucket outlives a reload).
C30_LoginLockout ==
    (pageType = "login" /\ storage = "ok" /\ Processing /\ last.allowed
        /\ drained.before >= 0) =>
        now - drained.before >= config.lockoutMs

----------------------------------------------------------------------------
(* The validators, sanitizeObject and the ButtonDebouncer called on their  *)
(* own, with arguments of every kind.                                       *)

MaxReps == 2             \* setLoading is repeated at most MaxReps times

\* n copies of a character
Rep(c, n) == [i \in 1..n |-> c]

\* lengths on both sides of every limit of SECURITY_CONFIG.validation
Lengths == {0, 1, 2, 4, 5, 7, 8, 9, 10, 15, 16, 50, 51, 100, 101, 128, 129}

\* what a field may hold: runs of a letter and of a character no pattern
\* admits, e-mail addresses, team names, USNs and departments
Cores ==
    {Rep("a", n) : n \in Lengths}
        \cup {Rep("<", n) : n \in {1, 3, 16, 51, 101}}
        \cup {Rep("a", n) \o <<"@", "b", ".", "c">> : n \in {1, 96, 97}}
        \cup { <<"a", "@", "b">>, <<"a", "b", "@", "c", "d">>,
               <<"T", " ", "1">>, <<"A", "<", "b">>, <<"A", ";", "b">>,
               <<"T", "e", "a", "m", " ", "4", "2">>,
               <<"1", "c", "r", "2", "3", "c", "s", "0", "0", "1">>,
               <<"1", "C", "R", "2", "3", "C", "S", "0", "0", "1">>,
               <<"1", "c", "R", "2", "3", "C", "s", "0", "0", "1">>,
               <<"2", "C", "R", "2", "3", "C", "S", "0", "0", "1">>,
               <<"1", "C", "R", "2", "3", "C", "S", "0", "0", "1", "1">>,
               <<"1", "C", "R", "2", "3", "C", "S", "0", "0">>,
               <<"C", "S", "E">>, <<"A", "I", "&", "D", "S">>,
               <<"X", "Y", "Z">>, <<"c", "s", "e">> }
FieldInputs == Cores \cup {<<" ">> \o c \o <<" ", " ">> : c \in Cores}

Validators ==
    {"email", "teamName", "memberName", "usn", "department", "password"}

\* the validator of that name
validate(name, value, required) ==
    CASE name = "email" -> validateEmail(value)
      [] name = "teamName" -> validateTeamName(value)
      [] name = "memberName" -> validateMemberName(value, required)
      [] name = "usn" -> validateUSN(value, required)
      [] name = "department" -> validateDepartment(value, required)
      [] name = "password" -> validatePassword(value)

\* one of the per-field validators is called
ValidateField ==
    /\ \E name \in Validators, value \in FieldInputs, required \in BOOLEAN :
        /\ name \in {"email", "teamName", "password"} => required
        /\ fnOp' = name
        /\ fnIn' = [value |-> value, required |-> required]
        /\ fnOut' = validate(name, value, required)
    /\ UNCHANGED <<limVars, sanVars, crlVars, regVars, fireVars>>

\* validateRegistrationForm or validateLoginForm is called
ValidateForm ==
    /\ \E formType \in {"registration", "login"} :
        \E formData \in FormsOf(formType) :
            /\ fnOp' = formType
            /\ fnIn' = formData
            /\ fnOut' = Validation[<<formType, formData>>]
    /\ UNCHANGED <<limVars, sanVars, crlVars, regVars, fireVars>>

\* objects handed to sanitizeObject: the nested object of the registration
\* scenario, one nested three deep beside values of every other kind, one
\* parsed from JSON text with a property named __proto__, and an empty one
Markup == <<"<", "b", ">", "X", "<", "/", "b", ">">>
Objects ==
    { [teamName |-> Str(Markup),
       member1 |-> JsObject([name |-> Str(<<"O", "'", "B", "r", "i", "e",
                                            "n">>)]),
       count |-> JsNumber(3)],
      [a |-> JsObject([b |-> JsObject([c |-> Str(<<"<">>),
                                       n |-> JsNumber(1)])]),
       flag |-> JsBoolean(TRUE),
       none |-> JsNull,
       list |-> JsArray(<<Str(<<"<">>), JsNumber(2)>>)],
      (ProtoKey :> Str(<<"x">>)) @@ [name |-> Str(<<"a", "&">>)],
      NoFields }

\* InputSanitizer.sanitizeObject is called
SanitizeObject ==
    /\ \E obj \in Objects :
        /\ fnOp' = "sanitizeObject"
        /\ fnIn' = obj
        /\ fnOut' = sanitizeObject(obj)
    /\ UNCHANGED <<limVars, sanVars, crlVars, regVars, fireVars>>

\* a button in some state is taken up: fnIn keeps it as it was found and
\* counts the setLoading calls made on it since
TakeButton ==
    /\ \E button \in Buttons :
        /\ fnOp' = "button"
        /\ fnIn' = [button |-> button, loads |-> 0]
        /\ fnOut' = button
    /\ UNCHANGED <<limVars, sanVars, crlVars, regVars, fireVars>>

\* ButtonDebouncer.setLoading on that button, loading already or not
SetLoading ==
    /\ fnOp \in {"button", "setLoading"}
    /\ fnIn.loads < MaxReps
    /\ \E spinner \in {SpinnerValidating, SpinnerSigningIn} :
        fnOut' = setLoading(fnOut, spinner)
    /\ fnOp' = "setLoading"
    /\ fnIn' = [fnIn EXCEPT !.loads = @ + 1]
    /\ UNCHANGED <<limVars, sanVars, crlVars, regVars, fireVars>>

\* ButtonDebouncer.restoreFromLoading on that button
RestoreFromLoading ==
    /\ fnOp \in {"button", "setLoading"}
    /\ fnOut' = restoreFromLoading(fnOut)
    /\ fnOp' = "restoreFromLoading"
    /\ UNCHANGED <<fnIn, limVars, sanVars, crlVars, regVars, fireVars>>

FnInit == FnIdle /\ LimIdle /\ SanIdle /\ CrlIdle /\ RegIdle /\ FireIdle

FnNext ==
    \/ ValidateField
    \/ ValidateForm
    \/ SanitizeObject
    \/ TakeButton
    \/ SetLoading
    \/ RestoreFromLoading

FnSpec == FnInit /\ [][FnNext]_vars

----------------------------------------------------------------------------
(* Properties of the validators *)

\* the rules of a field, each looked at on its own: the value the rules are
\* about, its limits (a department has none), the pattern without regard to
\* letter case for a USN, and the error each rule reports
Subject(name, value) ==
    IF name = "password" THEN value ELSE trim(value)
MinLength(name) ==
    CASE name = "email" -> EmailMin
      [] name = "teamName" -> TeamNameMin
      [] name = "memberName" -> MemberNameMin
      [] name = "usn" -> UsnMin
      [] name = "password" -> PasswordMin
MaxLength(name) ==
    CASE name = "email" -> EmailMax
      [] name = "teamName" -> TeamNameMax
      [] name = "memberName" -> MemberNameMax
      [] name = "usn" -> UsnMax
      [] name = "password" -> PasswordMax
IsUsnAnyCase(t) ==
    /\ Len(t) = 10
    /\ t[1] = "1"
    /\ \A i \in {2, 3, 6, 7} : IsLetter(t[i])
    /\ \A i \in {4, 5, 8, 9, 10} : IsDigit(t[i])
OutOfPattern(name, t) ==
    CASE name = "email" -> ~EmailPattern(t)
      [] name = "teamName" -> ~TeamNamePattern(t)
      [] name = "memberName" -> ~MemberNamePattern(t)
      [] name = "usn" -> ~IsUsnAnyCase(t)
      [] name = "department" -> t \notin AllowedDepartments
      [] name = "password" -> FALSE
ErrorOf(name, rule) ==
    CASE name = "email" ->
           [required |-> "Email is required",
            min |-> "Email must be at least 5 characters",
            max |-> "Email must be less than 100 characters",
            pattern |-> "Must be a valid email address"][rule]
      [] name = "teamName" ->
           [required |-> "Team name is required",
            min |-> "Team name must be at least 2 characters",
            max |-> "Team name must be less than 50 characters",
            pattern |-> "Only letters, numbers, and spaces allowed"][rule]
      [] name = "memberName" ->
           [required |-> "Name is required",
            min |-> "Name must be at least 2 characters",
            max |-> "Name must be less than 50 characters",
            pattern |-> "Only letters and spaces allowed"][rule]
      [] name = "usn" ->
           [required |-> "USN is required",
            min |-> "USN must be between 10-15 characters",
            max |-> "USN must be between 10-15 characters",
            pattern |-> "Format: 1XX00XX000 (e.g., 1CR23CS001)"][rule]
      [] name = "department" ->
           [required |-> "Department is required",
            min |-> "", max |-> "",
            pattern |-> "Invalid department selection"][rule]
      [] name = "password" ->
           [required |-> "Password is required",
            min |-> "Password must be at least 8 characters",
            max |-> "Password is too long",
            pattern |-> ""][rule]

Rejects(result, error) == ~result.valid /\ result.error = error

\* C24: every per-field validator returns a single error, that of the first
\* violated rule in the order required/empty, minimum length, maximum
\* length, pattern or enum membership; a value violating several rules
\* reports only the earliest one, and a value violating none is valid.  (An
\* empty value is settled by the first rule: an error where the field is
\* required, valid and null where it is optional.)
C24_FirstViolatedRule ==
    fnOp \in Validators =>
        LET t == Subject(fnOp, fnIn.value)
        IN  IF t = <<>>
            THEN IF fnIn.required
                 THEN Rejects(fnOut, ErrorOf(fnOp, "required"))
                 ELSE fnOut.valid /\ fnOut.value = JsNull
            ELSE IF fnOp # "department" /\ Len(t) < MinLength(fnOp)
            THEN Rejects(fnOut, ErrorOf(fnOp, "min"))
            ELSE IF fnOp # "department" /\ Len(t) > MaxLength(fnOp)
            THEN Rejects(fnOut, ErrorOf(fnOp, "max"))
            ELSE IF OutOfPattern(fnOp, t)
            THEN Rejects(fnOut, ErrorOf(fnOp, "pattern"))
            ELSE fnOut.valid /\ fnOut.error = ""

\* C24 witness: a team name that is too short and out of pattern at once is
\* answered with the length error
C24_Witness ==
    /\ fnOp = "teamName"
    /\ fnIn.value = <<"<">>
    /\ Len(fnIn.value) < TeamNameMin
    /\ OutOfPattern("teamName", fnIn.value)
    /\ Rejects(fnOut, "Team name must be at least 2 characters")

\* the validator and the arguments each field of a form is given
FieldValidator(f) ==
    CASE f \in {"teamEmail", "username"} -> "email"
      [] f = "teamName" -> "teamName"
      [] f = "password" -> "password"
      [] f \in {"member1Name", "member2Name", "member3Name"} -> "memberName"
      [] f \in {"member1USN", "member2USN", "member3USN"} -> "usn"
      [] f \in {"member1Dept", "member2Dept", "member3Dept"} -> "department"
FieldResult(formData, f) ==
    validate(FieldValidator(f), formData[f],
             f \in {"teamEmail", "username", "teamName", "password",
                    "member1Name", "member1USN", "member1Dept"})

\* C25: whole-form validation returns valid = true if and only if every
\* field's result is valid, equivalently errors is empty; each field of the
\* form is in exactly one of errors (when invalid) and sanitized (when
\* valid).
C25_FormAggregates ==
    fnOp \in {"registration", "login"} =>
        LET fields == AllowedFields(fnOp)
        IN  /\ fnOut.valid <=> \A f \in fields : FieldResult(fnIn, f).valid
            /\ fnOut.valid <=> DOMAIN fnOut.errors = {}
            /\ DOMAIN fnOut.errors \cup DOMAIN fnOut.sanitized = fields
            /\ DOMAIN fnOut.errors \cap DOMAIN fnOut.sanitized = {}
            /\ \A f \in fields :
                   IF FieldResult(fnIn, f).valid
                   THEN /\ f \in DOMAIN fnOut.sanitized
                        /\ fnOut.sanitized[f] = FieldResult(fnIn, f).value
                   ELSE /\ f \in DOMAIN fnOut.errors
                        /\ fnOut.errors[f] = FieldResult(fnIn, f).error

\* C25 witness: a registration form with two invalid fields and nine valid
\* ones
C25_Witness ==
    /\ fnOp = "registration"
    /\ ~fnOut.valid
    /\ DOMAIN fnOut.errors = {"teamEmail", "member3USN"}
    /\ Cardinality(DOMAIN fnOut.sanitized) = 9
    /\ fnOut.sanitized.member2Name = JsNull

\* C26: team names and USNs are accepted exactly when, trimmed, they are
\* within their length bounds and match their pattern: a team name holding
\* < or ; is rejected, one of letters, digits and spaces is accepted; a USN
\* is upper-cased before the pattern test, so one correctly formatted in any
\* letter case is accepted and returned in upper case, and one with a wrong
\* prefix digit is rejected.
C26_TeamNameAndUsn ==
    /\ fnOp = "teamName" =>
           LET t == trim(fnIn.value)
           IN  /\ fnOut.valid <=>
                      /\ Len(t) \in TeamNameMin..TeamNameMax
                      /\ \A i \in 1..Len(t) :
                             IsLetter(t[i]) \/ IsDigit(t[i]) \/ t[i] = " "
               /\ fnOut.valid => fnOut.value = Str(t)
               /\ (\E i \in 1..Len(t) : t[i] \in {"<", ";"}) => ~fnOut.valid
    /\ (fnOp = "usn" /\ trim(fnIn.value) # <<>>) =>
           LET t == trim(fnIn.value)
           IN  /\ fnOut.valid <=>
                      (Len(t) \in UsnMin..UsnMax /\ IsUsnAnyCase(t))
               /\ fnOut.valid =>
                      /\ fnOut.value.k = "string"
                      /\ Len(fnOut.value.v) = Len(t)
                      /\ \A i \in 1..Len(t) :
                             /\ Lower(fnOut.value.v[i]) = Lower(t[i])
                             /\ IsLetter(t[i]) => IsUpper(fnOut.value.v[i])
               /\ t[1] # "1" => ~fnOut.valid

\* C26 witness: a USN typed in mixed case between spaces is accepted and
\* returned in upper case
C26_Witness ==
    /\ fnOp = "usn"
    /\ fnIn.value = <<" ", "1", "c", "R", "2", "3", "C", "s", "0", "0", "1",
                      " ", " ">>
    /\ fnOut.valid
    /\ fnOut.value = Str(<<"1", "C", "R", "2", "3", "C", "S", "0", "0", "1">>)

----------------------------------------------------------------------------
(* Properties of sanitizeObject and of the ButtonDebouncer *)

\* an object with every string in it sanitized, at every depth
RECURSIVE DeepSanitized(_)
DeepSanitized(obj) ==
    [key \in DOMAIN obj |->
        IF obj[key].k = "string" THEN Str(sanitize(obj[key].v))
        ELSE IF obj[key].k = "object"
        THEN JsObject(DeepSanitized(obj[key].v))
        ELSE obj[key]]

\* C27: sanitizeObject returns a mapping with the keys of its input in which
\* every string value is replaced by sanitize(value), every nested plain
\* mapping is sanitized recursively at any depth, and every other value
\* (number, boolean, null, array) is returned unchanged.
C27_SanitizeObjectDeep ==
    fnOp = "sanitizeObject" => fnOut = DeepSanitized(fnIn)

\* C29: setLoading on a control, repeated any number of times while it is
\* loading, followed by restoreFromLoading leaves the control enabled with
\* the content it displayed before the first setLoading; restoreFromLoading
\* on an enabled control changes nothing.
C29_LoadingIdempotent ==
    fnOp = "restoreFromLoading" =>
        /\ fnIn.loads >= 1 =>
               /\ ~fnOut.disabled
               /\ fnOut.innerHTML = fnIn.button.innerHTML
        /\ (fnIn.loads = 0 /\ ~fnIn.button.disabled) => fnOut = fnIn.button

----------------------------------------------------------------------------
(* Session timeout of the admin page (src/js/admin.js): one setTimeout     *)
(* that every user event restarts while a user is signed in.  A timer is   *)
(* identified by the time at which it is due.                               *)

SESSION_TIMEOUT_MS == 30 * 60 * 1000

SessHorizon == 4500000   \* the admin page's clock runs this far (75 minutes)
SessDeltas == {5 * 60 * 1000, 10 * 60 * 1000, 30 * 60 * 1000}

\* resetInactivityTimer without the clearTimeout
resetInactivityTimer_NoClear(user, timer, pending, t) ==
    IF user
    THEN [inactivityTimer |-> t + SESSION_TIMEOUT_MS,
          timeouts |-> pending \cup {t + SESSION_TIMEOUT_MS}]
    ELSE [inactivityTimer |-> timer, timeouts |-> pending]

\* resetInactivityTimer(): clearTimeout(inactivityTimer), then, with a user
\* signed in, a new timeout of SESSION_TIMEOUT_MS
resetInactivityTimer(user, timer, pending, t) ==
    LET cleared == pending \ {timer}
    IN  IF user
        THEN [inactivityTimer |-> t + SESSION_TIMEOUT_MS,
              timeouts |-> cleared \cup {t + SESSION_TIMEOUT_MS}]
        ELSE [inactivityTimer |-> timer, timeouts |-> cleared]

\* the admin page is loaded; a persisted session makes onAuthStateChanged
\* report the user, which starts the timer
SessInit ==
    /\ sessNow = StartTime
    /\ currentUser \in BOOLEAN
    /\ \E r \in {resetInactivityTimer(currentUser, 0, {}, sessNow)} :
           /\ inactivityTimer = r.inactivityTimer
           /\ timeouts = r.timeouts
    /\ signOuts = {}
    /\ sessLast = "loaded"
    /\ lastActivity = StartTime
    /\ DbIdle
    /\ clients = <<>>
    /\ LimIdle
    /\ SanIdle
    /\ CrlIdle
    /\ RegIdle
    /\ FnIdle

\* what the session leaves alone
SessFrame ==
    UNCHANGED <<limVars, sanVars, crlVars, regVars, fnVars, dbVars, clients>>

\* signInWithEmailAndPassword is fulfilled: onAuthStateChanged reports the
\* user and calls resetInactivityTimer
SignedIn ==
    /\ ~currentUser
    /\ signOuts = {}
    /\ currentUser' = TRUE
    /\ \E r \in {resetInactivityTimer(TRUE, inactivityTimer, timeouts,
                                      sessNow)} :
           /\ inactivityTimer' = r.inactivityTimer
           /\ timeouts' = r.timeouts
    /\ lastActivity' = sessNow
    /\ sessLast' = "signedIn"
    /\ UNCHANGED <<signOuts, sessNow>>
    /\ SessFrame

\* a click, keypress, scroll or mousemove event: resetInactivityTimer
UserEvent ==
    /\ \E r \in {resetInactivityTimer(currentUser, inactivityTimer, timeouts,
                                      sessNow)} :
           /\ inactivityTimer' = r.inactivityTimer
           /\ timeouts' = r.timeouts
    /\ lastActivity' = IF currentUser THEN sessNow ELSE lastActivity
    /\ sessLast' = "event"
    /\ UNCHANGED <<currentUser, signOuts, sessNow>>
    /\ SessFrame

\* a pending timeout is due: its callback calls signOut(auth)
TimeoutFires ==
    \E due \in timeouts :
        /\ due <= sessNow
        /\ timeouts' = timeouts \ {due}
        /\ signOuts' = signOuts \cup {"expired"}
        /\ sessLast' = "timeout"
        /\ UNCHANGED <<currentUser, inactivityTimer, sessNow, lastActivity>>
        /\ SessFrame

\* handleLogout: signOut(auth), whose then-callback clears the timer
HandleLogout ==
    /\ currentUser
    /\ signOuts' = signOuts \cup {"logout"}
    /\ sessLast' = "logout"
    /\ UNCHANGED <<currentUser, inactivityTimer, timeouts, sessNow,
                   lastActivity>>
    /\ SessFrame

\* a signOut promise is fulfilled: no user any more; after handleLogout the
\* then-callback runs clearTimeout(inactivityTimer)
SignOutSettles ==
    \E kind \in signOuts :
        /\ signOuts' = signOuts \ {kind}
        /\ currentUser' = FALSE
        /\ timeouts' = IF kind = "logout" THEN timeouts \ {inactivityTimer}
                       ELSE timeouts
        /\ sessLast' = kind
        /\ UNCHANGED <<inactivityTimer, sessNow, lastActivity>>
        /\ SessFrame

\* time passes on the admin page, up to the next timeout due
SessAdvance ==
    \E d \in SessDeltas :
        /\ sessNow + d <= StartTime + SessHorizon
        /\ \A due \in timeouts : sessNow + d <= due
        /\ sessNow' = sessNow + d
        /\ sessLast' = "advance"
        /\ UNCHANGED <<currentUser, inactivityTimer, timeouts, signOuts,
                       lastActivity>>
        /\ SessFrame

SessNext ==
    \/ SignedIn
    \/ UserEvent
    \/ TimeoutFires
    \/ HandleLogout
    \/ SignOutSettles
    \/ SessAdvance

SessSpec == SessInit /\ [][SessNext]_vars

\* C31: a signed-in admin who produces no click, keypress, scroll or
\* mousemove event for SESSION_TIMEOUT_MS is signed out (the timeout callback
\* has run and its signOut is on its way or done); every such event
\* restarts the full timeout, and at most one inactivity timer is pending at
\* any time.
C31_SessionTimeout ==
    /\ Cardinality(timeouts) <= 1
    /\ (currentUser /\ "expired" \notin signOuts) =>
           /\ timeouts = {lastActivity + SESSION_TIMEOUT_MS}
           /\ sessNow - lastActivity <= SESSION_TIMEOUT_MS
    /\ sessLast = "expired" => ~currentUser

\* C31 witness: an event ten minutes after the page was loaded restarted the
\* timeout, and thirty idle minutes later the admin was signed out
C31_Witness ==
    /\ sessLast = "expired"
    /\ ~currentUser
    /\ lastActivity = StartTime + 10 * 60 * 1000
    /\ sessNow = lastActivity + SESSION_TIMEOUT_MS
    /\ timeouts = {}

----------------------------------------------------------------------------
(* Soft delete and restore on the admin page (src/js/admin.js).  The       *)
(* database maps a collection path to its documents, a document id to the  *)
(* document's fields; a path is a sequence of characters.  A write takes   *)
(* effect when its promise is fulfilled.                                    *)

Registrations ==
    <<"r", "e", "g", "i", "s", "t", "r", "a", "t", "i", "o", "n", "s">>
Events == <<"e", "v", "e", "n", "t", "s">>
Trash == <<"t", "r", "a", "s", "h">>

\* rateLimiters.delete and rateLimiters.bulkAction, and the one key each is
\* asked about in a session
rateLimiters ==
    [delete |-> [maxAttempts |-> 10, windowMs |-> 60000,
                 blockDurationMs |-> 60000],
     bulkAction |-> [maxAttempts |-> 5, windowMs |-> 60000,
                     blockDurationMs |-> 120000]]
FreshLimiter(key) ==
    [attempts |-> [k \in {key} |-> <<>>], blocked |-> [k \in {key} |-> 0]]

\* SecurityUtils.isValidDocId: a non-empty string without a slash
BadIds == {"", "a/b"}
isValidDocId(id) == id # "" /\ id \notin BadIds

\* SecurityUtils.sanitizeString(str, maxLength)
sanitizeString(str, maxLength) ==
    LET t == trim(str)
    IN  SubSeq(t, 1, IF Len(t) < maxLength THEN Len(t) ELSE maxLength)

\* docSnap.exists(), setDoc and deleteDoc on the database
exists(base, path, id) == path \in DOMAIN base /\ id \in DOMAIN base[path]

\* a setDoc whose write is lost although its promise is fulfilled
setDoc_Lost(base, path, id, data) == base

setDoc(base, path, id, data) ==
    [c \in DOMAIN base \cup {path} |->
        IF c = path
        THEN [i \in (IF c \in DOMAIN base THEN DOMAIN base[c] ELSE {})
                        \cup {id} |->
                 IF i = id THEN data ELSE base[c][i]]
        ELSE base[c]]
deleteDoc(base, path, id) ==
    [c \in DOMAIN base |->
        IF c = path
        THEN [i \in DOMAIN base[c] \ {id} |-> base[c][i]]
        ELSE base[c]]

\* what deleteFromFirestore adds to the copy in trash and undoDelete removes
TrashFields == {"originalCollection", "deletedAt", "deletedBy"}

\* { ...teamData, originalCollection, deletedAt, deletedBy }
trashCopy(teamData, collection) ==
    [f \in DOMAIN teamData \cup TrashFields |->
        IF f = "originalCollection" THEN collection
        ELSE IF f = "deletedAt" THEN "serverTimestamp"
        ELSE IF f = "deletedBy" THEN "admin"
        ELSE teamData[f]]

\* undoDelete's data that keeps the three fields of the trash copy
restored_KeepFields(data) == data

\* undoDelete: delete data.originalCollection, data.deletedAt, data.deletedBy
restored(data) == [f \in DOMAIN data \ TrashFields |-> data[f]]

\* data.originalCollection || 'registrations'
originalCollection(data) ==
    IF "originalCollection" \in DOMAIN data /\ data.originalCollection # <<>>
    THEN data.originalCollection ELSE Registrations

\* what a finished operation leaves in the history: its arguments and what
\* it returned, and the soft delete that had just succeeded before it
Finished(name, docId, collection, success, data) ==
    [name |-> name, docId |-> docId, collection |-> collection,
     success |-> success, data |-> data,
     prev |-> IF done.name = "delete" /\ done.success
              THEN [done EXCEPT !.prev = NoOp] ELSE NoOp]

\* a call of deleteFromFirestore or undoDelete suspended at an await
\* (selected, queue and count are those of bulkDeleteSelected when the call
\* was made from its loop, selected being empty otherwise)
Call(name, pc, collection, docId, teamData, selected, queue, count) ==
    [name |-> name, pc |-> pc, collection |-> collection, docId |-> docId,
     teamData |-> teamData, selected |-> selected, queue |-> queue,
     count |-> count]

\* deleteFromFirestore(collectionPath, docId) up to its first await: the
\* document id check and the rate limiter may end it at once
deleteFromFirestore(lim, collectionPath, docId, t) ==
    IF ~isValidDocId(docId)
    THEN [limiter |-> lim, returned |-> TRUE, error |-> "Invalid document ID"]
    ELSE LET r == recordAttempt(lim.attempts, lim.blocked, "delete", t,
                                rateLimiters.delete)
             after == [attempts |-> r.attempts, blocked |-> r.blocked]
         IN  IF ~r.result.allowed
             THEN [limiter |-> after, returned |-> TRUE,
                   error |-> "Rate limited"]
             ELSE [limiter |-> after, returned |-> FALSE, error |-> "none",
                   collection |-> sanitizeString(collectionPath, 100)]

\* the for loop of bulkDeleteSelected from the head of queue on: it runs
\* until a call of deleteFromFirestore reaches its first await, or to the end
RECURSIVE bulkLoop(_, _, _, _, _)
bulkLoop(lim, selected, queue, count, t) ==
    IF queue = <<>>
    THEN [limiter |-> lim, op |-> NoOp, finished |-> TRUE, count |-> count]
    ELSE LET teamId == Head(queue)
             call == deleteFromFirestore(lim, Registrations, teamId, t)
         IN  IF ~isValidDocId(teamId)
             THEN bulkLoop(lim, selected, Tail(queue), count, t)
             ELSE IF call.returned
             THEN bulkLoop(call.limiter, selected, Tail(queue), count, t)
             ELSE [limiter |-> call.limiter, finished |-> FALSE,
                   count |-> count,
                   op |-> Call("delete", "getDoc", call.collection, teamId,
                               <<>>, selected, Tail(queue), count)]

\* the call in flight returns: to the handler of the row's button, or into
\* the loop of bulkDeleteSelected, which counts the successes
Returns(success) ==
    IF adminOp.name = "delete" /\ adminOp.selected # <<>>
    THEN \E l \in {bulkLoop(limiters.delete, adminOp.selected, adminOp.queue,
                            adminOp.count + (IF success THEN 1 ELSE 0),
                            sessNow)} :
             /\ limiters' = [limiters EXCEPT !.delete = l.limiter]
             /\ adminOp' = l.op
             /\ done' = IF l.finished
                        THEN Finished("bulk", adminOp.selected, Registrations,
                                      TRUE, l.count)
                        ELSE done
    ELSE /\ adminOp' = NoOp
         /\ done' = Finished(adminOp.name, adminOp.docId, adminOp.collection,
                             success, adminOp.teamData)
         /\ UNCHANGED limiters

\* do the promises of this session's store calls settle either way?
Settlements == IF faulty THEN BOOLEAN ELSE {TRUE}

\* what the admin operations leave alone
DbFrame ==
    UNCHANGED <<limVars, sanVars, crlVars, regVars, fnVars, sessVars,
                clients, faulty>>

\* the delete button of a row or of the drawer: deleteFromFirestore
StartDelete ==
    /\ adminOp = NoOp
    /\ \E collectionPath \in {Registrations, Events},
          docId \in BadIds \cup UNION {DOMAIN db[c] : c \in DOMAIN db} :
        \E call \in {deleteFromFirestore(limiters.delete, collectionPath,
                                         docId, sessNow)} :
            /\ limiters' = [limiters EXCEPT !.delete = call.limiter]
            /\ IF call.returned
               THEN /\ adminOp' = NoOp
                    /\ done' = Finished("delete", docId, collectionPath,
                                        FALSE, <<>>)
               ELSE /\ adminOp' = Call("delete", "getDoc", call.collection,
                                       docId, <<>>, <<>>, <<>>, 0)
                    /\ done' = done
    /\ UNCHANGED db
    /\ DbFrame

\* deleteFromFirestore: getDoc(docRef) settles
DeleteReadSettles ==
    /\ adminOp.name = "delete"
    /\ adminOp.pc = "getDoc"
    /\ \E fulfilled \in Settlements :
        IF fulfilled /\ exists(db, adminOp.collection, adminOp.docId)
        THEN /\ adminOp' =
                    [adminOp EXCEPT
                        !.pc = "setDoc",
                        !.teamData = db[adminOp.collection][adminOp.docId]]
             /\ UNCHANGED <<limiters, done>>
        ELSE Returns(FALSE)
    /\ UNCHANGED db
    /\ DbFrame

\* deleteFromFirestore: setDoc(doc(db, 'trash', docId), ...) settles
TrashWriteSettles ==
    /\ adminOp.name = "delete"
    /\ adminOp.pc = "setDoc"
    /\ \E fulfilled \in Settlements :
        IF fulfilled
        THEN /\ db' = setDoc(db, Trash, adminOp.docId,
                             trashCopy(adminOp.teamData, adminOp.collection))
             /\ adminOp' = [adminOp EXCEPT !.pc = "deleteDoc"]
             /\ UNCHANGED <<limiters, done>>
        ELSE Returns(FALSE) /\ UNCHANGED db
    /\ DbFrame

\* deleteFromFirestore: deleteDoc(docRef) settles; logAdminAction, which
\* catches what it raises, precedes the return
DeleteSettles ==
    /\ adminOp.name = "delete"
    /\ adminOp.pc = "deleteDoc"
    /\ \E fulfilled \in Settlements :
        IF fulfilled
        THEN /\ db' = deleteDoc(db, adminOp.collection, adminOp.docId)
             /\ Returns(TRUE)
        ELSE Returns(FALSE) /\ UNCHANGED db
    /\ DbFrame

\* the restore button of the trash view: undoDelete(docId)
StartUndo ==
    /\ adminOp = NoOp
    /\ \E docId \in UNION {DOMAIN db[c] : c \in DOMAIN db} :
        adminOp' = Call("undo", "getDoc", Trash, docId, <<>>, <<>>, <<>>, 0)
    /\ UNCHANGED <<db, limiters, done>>
    /\ DbFrame

\* undoDelete: getDoc(trashRef) settles
UndoReadSettles ==
    /\ adminOp.name = "undo"
    /\ adminOp.pc = "getDoc"
    /\ \E fulfilled \in Settlements :
        IF fulfilled /\ exists(db, Trash, adminOp.docId)
        THEN \E data \in {db[Trash][adminOp.docId]} :
                 /\ adminOp' =
                        [adminOp EXCEPT
                            !.pc = "setDoc",
                            !.collection = originalCollection(data),
                            !.teamData = restored(data)]
                 /\ UNCHANGED <<limiters, done>>
        ELSE Returns(FALSE)
    /\ UNCHANGED db
    /\ DbFrame

\* undoDelete: setDoc(doc(db, originalCollection, docId), data) settles
RestoreWriteSettles ==
    /\ adminOp.name = "undo"
    /\ adminOp.pc = "setDoc"
    /\ \E fulfilled \in Settlements :
        IF fulfilled
        THEN /\ db' = setDoc(db, adminOp.collection, adminOp.docId,
                             adminOp.teamData)
             /\ adminOp' = [adminOp EXCEPT !.pc = "deleteDoc"]
             /\ UNCHANGED <<limiters, done>>
        ELSE Returns(FALSE) /\ UNCHANGED db
    /\ DbFrame

\* undoDelete: deleteDoc(trashRef) settles
TrashRemoveSettles ==
    /\ adminOp.name = "undo"
    /\ adminOp.pc = "deleteDoc"
    /\ \E fulfilled \in Settlements :
        IF fulfilled
        THEN /\ db' = deleteDoc(db, Trash, adminOp.docId)
             /\ Returns(TRUE)
        ELSE Returns(FALSE) /\ UNCHANGED db
    /\ DbFrame

\* a registration as the admin page finds it, and an event
TeamDoc(id) == [teamName |-> id, event |-> "testing", status |-> "pending"]
EventDoc(id) == [name |-> id, active |-> TRUE]

\* the database when the admin page is opened
InitialDb ==
    (Registrations :> [id \in {"1", "2"} |-> TeamDoc(id)])
        @@ (Events :> [id \in {"e1"} |-> EventDoc(id)])
        @@ (Trash :> <<>>)

\* the admin page is opened on a database with two teams and an event
DbInit ==
    /\ db = InitialDb
    /\ adminOp = NoOp
    /\ limiters = [delete |-> FreshLimiter("delete"),
                   bulkAction |-> FreshLimiter("bulkdel")]
    /\ faulty \in BOOLEAN
    /\ done = NoOp
    /\ SessIdle
    /\ clients = <<>>
    /\ LimIdle
    /\ SanIdle
    /\ CrlIdle
    /\ RegIdle
    /\ FnIdle

DbNext ==
    \/ StartDelete
    \/ DeleteReadSettles
    \/ TrashWriteSettles
    \/ DeleteSettles
    \/ StartUndo
    \/ UndoReadSettles
    \/ RestoreWriteSettles
    \/ TrashRemoveSettles

DbSpec == DbInit /\ [][DbNext]_vars

\* C32: soft delete is recoverable: when deleteFromFirestore has deleted an
\* existing document and undoDelete of the same id follows and returns true,
\* the document is back in the collection it was deleted from with its
\* original data, and trash no longer holds it.
C32_SoftDeleteRecoverable ==
    (adminOp = NoOp /\ done.name = "undo" /\ done.success
        /\ done.prev # NoOp /\ done.prev.docId = done.docId) =>
        LET collection == done.prev.collection
            docId == done.docId
        IN  /\ exists(db, collection, docId)
            /\ db[collection][docId] = done.prev.data
            /\ db[collection][docId] = InitialDb[collection][docId]
            /\ ~exists(db, Trash, docId)

\* C32 witness: the event e1 was deleted from events, found in trash with
\* the three fields added, and restored to events
C32_Witness ==
    /\ adminOp = NoOp
    /\ done.name = "undo"
    /\ done.success
    /\ done.docId = "e1"
    /\ done.prev # NoOp
    /\ done.prev.docId = "e1"
    /\ done.prev.collection = Events
    /\ db = InitialDb

\* the fields of a document are held by the collection, or by trash
Held(collection, id) ==
    \/ /\ exists(db, collection, id)
       /\ db[collection][id] = InitialDb[collection][id]
    \/ /\ exists(db, Trash, id)
       /\ originalCollection(db[Trash][id]) = collection
       /\ restored(db[Trash][id]) = InitialDb[collection][id]

\* C39: a document is never lost by soft delete or restore: at every point
\* of deleteFromFirestore and undoDelete, also when a store call fails
\* midway, its data is in its original collection or in trash (or both).
C39_NeverLost ==
    \A collection \in {Registrations, Events} :
        \A id \in DOMAIN InitialDb[collection] : Held(collection, id)

\* C39 witness: the deleteDoc of a soft delete was rejected, which left the
\* team both in registrations and in trash
C39_Witness ==
    /\ faulty
    /\ adminOp = NoOp
    /\ done.name = "delete"
    /\ ~done.success
    /\ done.docId = "1"
    /\ exists(db, Registrations, "1")
    /\ exists(db, Trash, "1")
    /\ Held(Registrations, "1")

----------------------------------------------------------------------------
(* Bulk delete on the admin page: bulkDeleteSelected over the checked rows *)
(* of the teams table, on a store whose calls are not rejected.             *)

MaxSelected == 21        \* teams in the table, and rows checked at most

\* the ids of the rows of the teams table, in the order of the table
Rows(base) ==
    SelectSeq([i \in 1..MaxSelected |-> ToString(i)],
              LAMBDA id : exists(base, Registrations, id))

\* the bulk delete button, the first n rows being checked: the bulkAction
\* limiter, the checks on the selection, the confirm dialog, then the loop
BulkDeleteSelected ==
    /\ adminOp = NoOp
    /\ \E n \in 0..Len(Rows(db)), confirmed \in BOOLEAN :
        \E selected \in {SubSeq(Rows(db), 1, n)},
           r \in {recordAttempt(limiters.bulkAction.attempts,
                                limiters.bulkAction.blocked, "bulkdel",
                                sessNow, rateLimiters.bulkAction)} :
            IF ~r.result.allowed \/ Len(selected) = 0 \/ Len(selected) > 20
                   \/ ~confirmed
            THEN /\ limiters' =
                        [limiters EXCEPT
                            !.bulkAction = [attempts |-> r.attempts,
                                            blocked |-> r.blocked]]
                 /\ adminOp' = NoOp
                 /\ done' = Finished("bulk", selected, Registrations,
                                     FALSE, 0)
            ELSE \E l \in {bulkLoop(limiters.delete, selected, selected, 0,
                                    sessNow)} :
                     /\ limiters' =
                            [delete |-> l.limiter,
                             bulkAction |-> [attempts |-> r.attempts,
                                             blocked |-> r.blocked]]
                     /\ adminOp' = l.op
                     /\ done' = IF l.finished
                                THEN Finished("bulk", selected,
                                              Registrations, TRUE, l.count)
                                ELSE done
    /\ UNCHANGED db
    /\ DbFrame

\* the admin page is opened on a table of MaxSelected teams
BulkInit ==
    /\ db = (Registrations :>
                 [id \in {ToString(i) : i \in 1..MaxSelected} |->
                     TeamDoc(id)])
            @@ (Trash :> <<>>)
    /\ adminOp = NoOp
    /\ limiters = [delete |-> FreshLimiter("delete"),
                   bulkAction |-> FreshLimiter("bulkdel")]
    /\ faulty = FALSE
    /\ done = NoOp
    /\ SessIdle
    /\ clients = <<>>
    /\ LimIdle
    /\ SanIdle
    /\ CrlIdle
    /\ RegIdle
    /\ FnIdle

BulkNext ==
    \/ BulkDeleteSelected
    \/ DeleteReadSettles
    \/ TrashWriteSettles
    \/ DeleteSettles

BulkSpec == BulkInit /\ [][BulkNext]_vars

\* C38: a bulk delete of n selected teams with valid ids that all exist, n
\* being at most 20, soft-deletes all n teams when no store call fails: the
\* loop counts n successes and every selected team is in trash and no
\* longer in registrations.
C38_BulkDeletesAll ==
    (adminOp = NoOp /\ done.name = "bulk" /\ done.success /\ ~faulty
        /\ Len(done.docId) <= 20) =>
        /\ done.data = Len(done.docId)
        /\ \A i \in 1..Len(done.docId) :
               /\ exists(db, Trash, done.docId[i])
               /\ ~exists(db, Registrations, done.docId[i])

----------------------------------------------------------------------------
(* Several browsers on the registration page, one collection of            *)
(* registrations: each client runs the submit handler on its own form.      *)

MaxClients == 2          \* browsers that have the registration page open
Clients == 1..MaxClients

NoClient == [pc |-> "idle", form |-> NoFields]

RaceFrame ==
    UNCHANGED <<pageType, btn, regPc, regForm, regOut, regLast, btnBefore,
                btnReturned, regIn, drained, limVars, sanVars, crlVars,
                fnVars, sessVars, dbVars>>

\* the submit event on client c: the coordinator (whose limiter, kept in
\* that browser, allows the call or not) hands back the clean data and the
\* handler issues the duplicate-name query
ClientSubmits(c) ==
    /\ clients[c].pc = "idle"
    /\ \E formData \in RaceForms, allowed \in BOOLEAN :
        \E r \in {process("registration", allowed, formData, FreshButton)} :
            clients' =
                [clients EXCEPT
                    ![c] = IF r.outcome.type = "VALIDATED"
                           THEN [pc |-> "query",
                                 form |-> Merge(formData, r.outcome.data)]
                           ELSE NoClient]
    /\ UNCHANGED store
    /\ RaceFrame

\* the duplicate-name query of client c settles on the collection as it is
ClientQuerySettles(c) ==
    /\ clients[c].pc = "query"
    /\ \E fulfilled \in BOOLEAN :
        clients' =
            [clients EXCEPT
                ![c] = IF fulfilled /\ NoSuchTeam(store, clients[c].form)
                       THEN [@ EXCEPT !.pc = "config"]
                       ELSE NoClient]
    /\ UNCHANGED store
    /\ RaceFrame

\* the read of config/registration of client c settles
ClientConfigSettles(c) ==
    /\ clients[c].pc = "config"
    /\ \E activeEvent \in {"testing", "live"} :
        clients' =
            [clients EXCEPT
                ![c] = [pc |-> "add",
                        form |-> [f \in DOMAIN clients[c].form \cup {"event"}
                                    |-> IF f = "event" THEN activeEvent
                                        ELSE clients[c].form[f]]]]
    /\ UNCHANGED store
    /\ RaceFrame

\* the add of client c settles
ClientAddSettles(c) ==
    /\ clients[c].pc = "add"
    /\ \E fulfilled \in BOOLEAN :
        store' = IF fulfilled
                 THEN store \cup {Doc(clients[c].form, clients[c].form.event)}
                 ELSE store
    /\ clients' = [clients EXCEPT ![c] = NoClient]
    /\ RaceFrame

ClientSubmit == \E c \in Clients : ClientSubmits(c)
ClientQuery == \E c \in Clients : ClientQuerySettles(c)
ClientConfig == \E c \in Clients : ClientConfigSettles(c)
ClientAdd == \E c \in Clients : ClientAddSettles(c)

\* the pages are loaded on an empty collection
RaceInit ==
    /\ clients = [c \in Clients |-> NoClient]
    /\ RegIdle
    /\ LimIdle
    /\ SanIdle
    /\ CrlIdle
    /\ FnIdle
    /\ SessIdle
    /\ DbIdle

RaceNext == ClientSubmit \/ ClientQuery \/ ClientConfig \/ ClientAdd

RaceSpec == RaceInit /\ [][RaceNext]_vars

\* C40: the submit handler writes a registration only if no stored
\* registration has the same team name, so under any interleaving of submit
\* handlers the store never holds two registrations with one team name.
C40_UniqueTeamNames ==
    \A d1 \in store, d2 \in store : d1 # d2 => d1.teamName # d2.teamName

====
